---- MODULE Spec2Model ----
(***************************************************************************)
(* Model of tv4p-road-tool: the tagged-list scanner, the entry/field codec, *)
(* the identifier allocator, the crossroad resolver and the offset patcher *)
(* of internal/tv4p, with the patch/extract/generate commands around them. *)
(*                                                                         *)
(* Bytes are integers 0..255, a buffer is a sequence of bytes.  Go offsets *)
(* are 0-based: At(d, i) is d[i] of the Go source.  A Go string is the     *)
(* sequence of its bytes.  A Go pointer or optional value is a sequence of *)
(* length 0 (nil) or 1.                                                    *)
(***************************************************************************)
EXTENDS Integers, Sequences, FiniteSets, TLC

(***************************************************************************)
(* Byte and string helpers (package strings / bytes of the Go library).    *)
(***************************************************************************)
At(d, i) == d[i + 1]

\* d[lo:hi] of Go
Slice(d, lo, hi) == SubSeq(d, lo + 1, hi)

Min2(a, b) == IF a < b THEN a ELSE b

Max2(a, b) == IF a > b THEN a ELSE b

\* strings.ToLower on one ASCII byte
LowerByte(c) == IF c >= 65 /\ c <= 90 THEN c + 32 ELSE c

ToLower(s) == [i \in 1..Len(s) |-> LowerByte(s[i])]

\* unicode.IsSpace on the ASCII range
IsSpace(c) == c \in {9, 10, 11, 12, 13, 32}

RECURSIVE TrimLeft(_)
TrimLeft(s) == IF s # <<>> /\ IsSpace(Head(s)) THEN TrimLeft(Tail(s)) ELSE s

RECURSIVE TrimRight(_)
TrimRight(s) ==
    IF s # <<>> /\ IsSpace(s[Len(s)]) THEN TrimRight(SubSeq(s, 1, Len(s) - 1)) ELSE s

TrimSpace(s) == TrimRight(TrimLeft(s))

HasPrefix(s, p) == Len(s) >= Len(p) /\ SubSeq(s, 1, Len(p)) = p

\* the pattern p occurs in d at 0-based offset i
MatchAt(d, i, p) ==
    /\ i >= 0
    /\ i + Len(p) <= Len(d)
    /\ \A k \in 1..Len(p) : d[i + k] = p[k]

\* every 0-based offset at which p occurs in d
Occurrences(d, p) == {i \in 0..(Len(d) - Len(p)) : MatchAt(d, i, p)}

SetMin(S) == CHOOSE x \in S : \A y \in S : x <= y

SetMax(S) == CHOOSE x \in S : \A y \in S : x >= y

\* bytes.Index: first offset of p in d, -1 when absent
BytesIndex(d, p) == IF Occurrences(d, p) = {} THEN -1 ELSE SetMin(Occurrences(d, p))

\* strings.Contains
Contains(s, p) == Occurrences(s, p) # {}

RECURSIVE Concat(_)
Concat(ss) == IF ss = <<>> THEN <<>> ELSE Head(ss) \o Concat(Tail(ss))

\* strings.Split(s, sep) for a one-byte separator
RECURSIVE SplitAcc(_, _, _, _)
SplitAcc(s, sep, cur, acc) ==
    IF s = <<>> THEN Append(acc, cur)
    ELSE IF Head(s) = sep THEN SplitAcc(Tail(s), sep, <<>>, Append(acc, cur))
    ELSE SplitAcc(Tail(s), sep, Append(cur, Head(s)), acc)

Split(s, sep) == SplitAcc(s, sep, <<>>, <<>>)

\* strings.Join(parts, sep)
RECURSIVE Join(_, _)
Join(parts, sep) ==
    IF parts = <<>> THEN <<>>
    ELSE IF Len(parts) = 1 THEN parts[1]
    ELSE parts[1] \o sep \o Join(Tail(parts), sep)

HasSuffix(s, p) == Len(s) >= Len(p) /\ SubSeq(s, Len(s) - Len(p) + 1, Len(s)) = p

\* strings.TrimSuffix
TrimSuffix(s, p) == IF HasSuffix(s, p) THEN SubSeq(s, 1, Len(s) - Len(p)) ELSE s

\* strings.LastIndex for a one-byte separator: 0-based, -1 when absent
LastIndex(s, c) ==
    IF \E i \in 1..Len(s) : s[i] = c
    THEN SetMax({i \in 1..Len(s) : s[i] = c}) - 1
    ELSE -1

\* strings.Fields: the maximal runs of non-space bytes
RECURSIVE FieldsAcc(_, _, _)
FieldsAcc(s, cur, acc) ==
    IF s = <<>> THEN (IF cur = <<>> THEN acc ELSE Append(acc, cur))
    ELSE IF IsSpace(Head(s))
    THEN FieldsAcc(Tail(s), <<>>, IF cur = <<>> THEN acc ELSE Append(acc, cur))
    ELSE FieldsAcc(Tail(s), Append(cur, Head(s)), acc)

Fields(s) == FieldsAcc(s, <<>>, <<>>)

(***************************************************************************)
(* Little-endian integers (bytes.go).  A uint32 is kept as the integer it  *)
(* denotes; -1 stands for 0xFFFFFFFF, which U32Bytes writes as ff ff ff ff. *)
(***************************************************************************)
readU16(b) == IF Len(b) < 2 THEN 0 ELSE b[1] + 256 * b[2]

readU32(b) ==
    IF Len(b) < 4 THEN 0 ELSE b[1] + 256 * b[2] + 65536 * b[3] + 16777216 * b[4]

\* readU32(d[pos:lim]) without building the slice
readU32At(d, pos, lim) ==
    IF lim - pos < 4 THEN 0
    ELSE At(d, pos) + 256 * At(d, pos + 1) + 65536 * At(d, pos + 2)
         + 16777216 * At(d, pos + 3)

readU16At(d, pos, lim) ==
    IF lim - pos < 2 THEN 0 ELSE At(d, pos) + 256 * At(d, pos + 1)

\* the flag byte always set
boolByteSet(v) == 1

boolByte(v) == IF v THEN 1 ELSE 0

\* writeU16 into a fresh 2-byte buffer
U16Bytes(v) == <<v % 256, (v \div 256) % 256>>

\* writeU32 into a fresh 4-byte buffer
U32Bytes(v) ==
    <<v % 256, (v \div 256) % 256, (v \div 65536) % 256, (v \div 16777216) % 256>>

\* writeU16FromInt: ok is FALSE for a value out of the uint16 range
writeU16FromInt(v) ==
    IF v < 0 \/ v > 65535 THEN [ok |-> FALSE, bytes |-> <<>>]
    ELSE [ok |-> TRUE, bytes |-> U16Bytes(v)]

\* writeU32FromInt: every value the model reaches is below 2^31
writeU32FromInt(v) ==
    IF v < 0 THEN [ok |-> FALSE, bytes |-> <<>>]
    ELSE [ok |-> TRUE, bytes |-> U32Bytes(v)]

\* d with the bytes at 0-based offset pos.. replaced by b
Overwrite(d, pos, b) ==
    [i \in 1..Len(d) |-> IF i > pos /\ i <= pos + Len(b) THEN b[i - pos] ELSE d[i]]

(***************************************************************************)
(* hex.EncodeToString / hex.DecodeString: two lower-case hex digits per    *)
(* byte, kept as the ASCII codes of the digits.                            *)
(***************************************************************************)
HexDigit(n) == IF n < 10 THEN 48 + n ELSE 87 + n

HexValue(c) ==
    IF c >= 48 /\ c <= 57 THEN c - 48
    ELSE IF c >= 97 /\ c <= 102 THEN c - 87
    ELSE IF c >= 65 /\ c <= 70 THEN c - 55
    ELSE -1

hexEncodeToString(b) ==
    [i \in 1..(2 * Len(b)) |->
        IF i % 2 = 1 THEN HexDigit(b[(i + 1) \div 2] \div 16)
        ELSE HexDigit(b[i \div 2] % 16)]

\* decodeHex (write.go): trims, accepts the empty string, rejects odd length
\* and non-hex digits
decodeHex(s) ==
    LET t == TrimSpace(s) IN
    IF t = <<>> THEN [ok |-> TRUE, bytes |-> <<>>]
    ELSE IF Len(t) % 2 = 1 \/ \E i \in 1..Len(t) : HexValue(t[i]) < 0
         THEN [ok |-> FALSE, bytes |-> <<>>]
    ELSE [ok |-> TRUE,
          bytes |-> [i \in 1..(Len(t) \div 2) |->
                        16 * HexValue(t[2 * i - 1]) + HexValue(t[2 * i])]]

u32Hex(v) == hexEncodeToString(U32Bytes(v))

rgbaHex(c) == hexEncodeToString(<<c.R, c.G, c.B, c.A>>)

(***************************************************************************)
(* Entry/field decoder (parse.go).  An Entry is                            *)
(*   [TypeID, ID, Offset, IDOffset, Fields], a Field is [Tag, Type, Raw,   *)
(* List].  parseEntry works on the window [lo, hi) of d, which is the Go    *)
(* slice body = data[bodyStart:bodyEnd].                                   *)
(***************************************************************************)
RECURSIVE parseEntries(_, _, _, _, _)
RECURSIVE parseFields(_, _, _, _, _)

\* the field loop of parseEntry: pos is absolute, [lo, hi) the body window
parseFields(d, lo, hi, pos, fields) ==
    IF ~(pos + 3 <= hi) THEN [ok |-> TRUE, fields |-> fields]
    ELSE
    LET tag == At(d, pos)
        typ == At(d, pos + 2)
        p   == pos + 3
    IN
    IF At(d, pos + 1) # 0 THEN [ok |-> FALSE, fields |-> <<>>]
    ELSE IF typ = 11 THEN                                     \* 0x0B string
        IF p + 2 > hi THEN [ok |-> FALSE, fields |-> <<>>]
        ELSE LET ln == readU16At(d, p, hi) IN
             IF p + 2 + ln > hi THEN [ok |-> FALSE, fields |-> <<>>]
             ELSE parseFields(d, lo, hi, p + 2 + ln,
                     Append(fields, [Tag |-> tag, Type |-> typ,
                                     Raw |-> Slice(d, p + 2, p + 2 + ln), List |-> <<>>]))
    ELSE IF typ = 9 THEN                                      \* 0x09 byte
        IF p + 1 > hi THEN [ok |-> FALSE, fields |-> <<>>]
        ELSE parseFields(d, lo, hi, p + 1,
                Append(fields, [Tag |-> tag, Type |-> typ,
                                Raw |-> Slice(d, p, p + 1), List |-> <<>>]))
    ELSE IF typ = 8 THEN                                      \* 0x08 color
        IF p + 4 > hi THEN [ok |-> FALSE, fields |-> <<>>]
        ELSE parseFields(d, lo, hi, p + 4,
                Append(fields, [Tag |-> tag, Type |-> typ,
                                Raw |-> Slice(d, p, p + 4), List |-> <<>>]))
    ELSE IF typ = 20 THEN                                     \* 0x14 bytes
        IF p + 8 > hi THEN [ok |-> FALSE, fields |-> <<>>]
        ELSE parseFields(d, lo, hi, p + 8,
                Append(fields, [Tag |-> tag, Type |-> typ,
                                Raw |-> Slice(d, p, p + 8), List |-> <<>>]))
    ELSE IF typ = 12 THEN                                     \* 0x0C list
        IF p + 8 > hi THEN [ok |-> FALSE, fields |-> <<>>]
        ELSE LET listLen == readU32At(d, p, hi)
                 count   == readU32At(d, p + 4, hi)
                 listStart == p + 8
                 listEnd == listStart + (listLen - 4)
             IN
             IF listLen < 4 THEN [ok |-> FALSE, fields |-> <<>>]
             ELSE IF listEnd > hi THEN [ok |-> FALSE, fields |-> <<>>]
             ELSE LET withList(sub) ==
                          IF ~sub.ok THEN [ok |-> FALSE, fields |-> <<>>]
                          ELSE parseFields(d, lo, hi, listEnd,
                                  Append(fields, [Tag |-> tag, Type |-> typ,
                                                  Raw |-> <<>>, List |-> sub.entries]))
                  IN withList(parseEntries(d, listStart, listLen - 4, count, hi))
    ELSE [ok |-> FALSE, fields |-> <<>>]

\* parseEntry(body = d[lo:hi], absStart = lo)
parseEntry(d, lo, hi) ==
    IF hi - lo < 6 THEN [ok |-> FALSE, entry |-> <<>>]
    ELSE LET withFields(fs) ==
                 IF ~fs.ok THEN [ok |-> FALSE, entry |-> <<>>]
                 ELSE [ok |-> TRUE,
                       entry |-> [TypeID |-> readU16At(d, lo, hi),
                                  ID |-> readU32At(d, lo + 2, hi),
                                  Offset |-> lo,
                                  IDOffset |-> lo + 2,
                                  Fields |-> fs.fields]]
         IN withFields(parseFields(d, lo, hi, lo + 6, <<>>))

RECURSIVE parseEntriesLoop(_, _, _, _, _)
parseEntriesLoop(d, pos, end, count, entries) ==
    IF ~(pos + 7 <= end /\ Len(entries) < count) THEN [ok |-> TRUE, entries |-> entries]
    ELSE IF ~MatchAt(d, pos, <<6, 0, 13>>) THEN [ok |-> FALSE, entries |-> <<>>]
    ELSE LET bodyLen   == readU32At(d, pos + 3, end)
             bodyStart == pos + 7
             bodyEnd   == bodyStart + bodyLen
         IN
         IF bodyEnd > end THEN [ok |-> FALSE, entries |-> <<>>]
         ELSE LET withEntry(ent) ==
                      IF ~ent.ok THEN [ok |-> FALSE, entries |-> <<>>]
                      ELSE parseEntriesLoop(d, bodyEnd, end, count,
                                            Append(entries, ent.entry))
              IN withEntry(parseEntry(d, bodyStart, bodyEnd))

\* parseEntries(data, pos, listLen, count, _): dataLen is len(data) of the
\* slice the Go call was handed (the whole file, or the enclosing body)
parseEntries(d, pos, listLen, count, dataLen) ==
    IF pos + listLen > dataLen THEN [ok |-> FALSE, entries |-> <<>>]
    ELSE parseEntriesLoop(d, pos, pos + listLen, count, <<>>)

(***************************************************************************)
(* Domain model (tv4p.go): zero values of the Go structs.                  *)
(***************************************************************************)
ZeroColor == [R |-> 0, G |-> 0, B |-> 0, A |-> 0]

ZeroRoadType ==
    [Name |-> <<>>, StraightParts |-> <<>>, CornerParts |-> <<>>,
     TerminatorPart |-> <<>>, ID |-> 0, Type |-> 0,
     KeyColor |-> ZeroColor, NormalColor |-> ZeroColor,
     KeyCustom |-> FALSE, NormalCustom |-> FALSE]

ZeroConnections == [A |-> <<>>, B |-> <<>>, C |-> <<>>, D |-> <<>>]

\* CrossroadType; TV4PDef and TV4PLink are *EntryRaw: <<>> is nil
ZeroCrossroadType ==
    [Name |-> <<>>, Model |-> <<>>, Color |-> ZeroColor, ColorCustom |-> FALSE,
     Connections |-> ZeroConnections, Default |-> <<>>,
     TV4PDef |-> <<>>, TV4PLink |-> <<>>]

\* RoadConfig; CrossroadsNil is cfg.CrossroadTypes == nil
ZeroRoadConfig == [Types |-> <<>>, CrossroadTypes |-> <<>>, CrossroadsNil |-> TRUE]

(***************************************************************************)
(* Road-type list scanner and projection (parse.go).                       *)
(***************************************************************************)
looksLikeRoadPath(p) == Contains(ToLower(p), <<46, 112, 51, 100>>)   \* ".p3d"

entryHasRoadPath(e) ==
    \E i \in 1..Len(e.Fields) :
        LET f == e.Fields[i] IN
        \/ f.Tag = 124 /\ looksLikeRoadPath(f.Raw)
        \/ \E j \in 1..Len(f.List) :
              \E k \in 1..Len(f.List[j].Fields) :
                 /\ f.List[j].Fields[k].Tag = 124
                 /\ looksLikeRoadPath(f.List[j].Fields[k].Raw)

entryHasRoadLists(e) ==
    \E i \in 1..Len(e.Fields) : e.Fields[i].Tag \in {120, 121, 123}

\* the candidate at offset i of findRoadTypesList: decoded entries, or ok = FALSE
roadTypesCandidate(data, i) ==
    IF ~MatchAt(data, i, <<136, 0, 12>>) THEN [ok |-> FALSE]
    ELSE LET listLen == readU32At(data, i + 3, Len(data))
             count   == readU32At(data, i + 7, Len(data))
         IN
         IF At(data, i + 10) >= 128 THEN [ok |-> FALSE]   \* countU32 > MaxInt32
         ELSE IF listLen < 4 THEN [ok |-> FALSE]
         ELSE LET withEntries(r) ==
                      IF ~r.ok THEN [ok |-> FALSE]
                      ELSE IF ~(\E k \in 1..Len(r.entries) :
                                   \/ entryHasRoadPath(r.entries[k])
                                   \/ entryHasRoadLists(r.entries[k]))
                           THEN [ok |-> FALSE]
                      ELSE [ok |-> TRUE, Start |-> i, ListLen |-> listLen,
                            EntriesStart |-> i + 11, EntriesLen |-> listLen - 4,
                            Count |-> count, Entries |-> r.entries]
              IN withEntries(parseEntries(data, i + 11, listLen - 4, count, Len(data)))

\* findRoadTypesList: the first conforming candidate, scanning i+11 < len(data)
findRoadTypesList(data) ==
    LET cands == {i \in 0..(Len(data) - 12) :
                     MatchAt(data, i, <<136, 0, 12>>) /\ roadTypesCandidate(data, i).ok}
    IN IF cands = {} THEN [ok |-> FALSE] ELSE roadTypesCandidate(data, SetMin(cands))

RECURSIVE extractPartFields(_, _)
extractPartFields(fields, p) ==
    IF fields = <<>> THEN p
    ELSE LET f == Head(fields) IN
         extractPartFields(Tail(fields),
            IF f.Tag = 51 THEN [p EXCEPT !.Name = f.Raw]
            ELSE IF f.Tag = 124 THEN [p EXCEPT !.Path = f.Raw]
            ELSE p)

RECURSIVE extractParts(_)
extractParts(list) ==
    IF list = <<>> THEN <<>>
    ELSE LET e == Head(list)
             p == extractPartFields(e.Fields,
                     [Name |-> <<>>, Path |-> <<>>, ID |-> e.ID, Type |-> e.TypeID])
         IN (IF p.Name # <<>> \/ p.Path # <<>> THEN <<p>> ELSE <<>>)
            \o extractParts(Tail(list))

RawColor(raw) == [R |-> raw[1], G |-> raw[2], B |-> raw[3], A |-> raw[4]]

RECURSIVE roadTypeFields(_, _)
roadTypeFields(fields, rt) ==
    IF fields = <<>> THEN rt
    ELSE LET f == Head(fields) IN
         roadTypeFields(Tail(fields),
            IF f.Tag = 51 THEN [rt EXCEPT !.Name = f.Raw]
            ELSE IF f.Tag = 113 THEN [rt EXCEPT !.KeyCustom = Len(f.Raw) > 0 /\ f.Raw[1] # 0]
            ELSE IF f.Tag = 114 THEN [rt EXCEPT !.NormalCustom = Len(f.Raw) > 0 /\ f.Raw[1] # 0]
            ELSE IF f.Tag = 115 THEN
                (IF Len(f.Raw) >= 4 THEN [rt EXCEPT !.NormalColor = RawColor(f.Raw)] ELSE rt)
            ELSE IF f.Tag = 116 THEN
                (IF Len(f.Raw) >= 4 THEN [rt EXCEPT !.KeyColor = RawColor(f.Raw)] ELSE rt)
            ELSE IF f.Tag = 120 THEN [rt EXCEPT !.StraightParts = extractParts(f.List)]
            ELSE IF f.Tag = 121 THEN [rt EXCEPT !.CornerParts = extractParts(f.List)]
            ELSE IF f.Tag = 123 THEN [rt EXCEPT !.TerminatorPart = extractParts(f.List)]
            ELSE rt)

\* ParseRoadTypes: the RoadTypesBlock, or ok = FALSE
ParseRoadTypes(data) ==
    LET withList(m) ==
            IF ~m.ok THEN [ok |-> FALSE]
            ELSE IF Len(m.Entries) # m.Count THEN [ok |-> FALSE]
            ELSE [ok |-> TRUE, Start |-> m.Start, Count |-> m.Count,
                  ListLen |-> m.ListLen,
                  EntriesStart |-> m.EntriesStart, EntriesLen |-> m.EntriesLen,
                  Entries |-> m.Entries,
                  Types |-> [k \in 1..Len(m.Entries) |->
                               roadTypeFields(m.Entries[k].Fields,
                                  [ZeroRoadType EXCEPT !.ID = m.Entries[k].ID,
                                                       !.Type = m.Entries[k].TypeID])]]
    IN withList(findRoadTypesList(data))

(***************************************************************************)
(* Field and entry encoders (write.go).  Each returns [ok, bytes].         *)
(***************************************************************************)
Ok(b) == [ok |-> TRUE, bytes |-> b]

Fail == [ok |-> FALSE, bytes |-> <<>>]

fieldString(tag, s) ==
    LET l == writeU16FromInt(Len(s)) IN
    IF ~l.ok THEN Fail ELSE Ok(<<tag, 0, 11>> \o l.bytes \o s)

fieldByte(tag, v) == <<tag, 0, 9, v>>

fieldColor(tag, c, custom) ==
    IF ~custom THEN <<tag, 0, 8, 0, 0, 0, 255>>
    ELSE <<tag, 0, 8, c.R, c.G, c.B, 255>>

fieldBytes(tag, b) == <<tag, 0, 20>> \o b

Zero8 == <<0, 0, 0, 0, 0, 0, 0, 0>>

buildList(entries) == Concat(entries)

\* the declared list length written without the four bytes of the count
fieldListLenWithoutCount(tag, entries) ==
    LET listBytes == buildList(entries)
        l == writeU32FromInt(Len(listBytes))
        c == writeU32FromInt(Len(entries))
    IN IF ~l.ok \/ ~c.ok THEN Fail
       ELSE Ok(<<tag, 0, 12>> \o l.bytes \o c.bytes \o listBytes)

\* fieldList(tag, entries): entries is a sequence of encoded entries
fieldList(tag, entries) ==
    LET listBytes == buildList(entries)
        l == writeU32FromInt(Len(listBytes) + 4)
        c == writeU32FromInt(Len(entries))
    IN IF ~l.ok \/ ~c.ok THEN Fail
       ELSE Ok(<<tag, 0, 12>> \o l.bytes \o c.bytes \o listBytes)

\* buildEntry(typeID, id, fields): fields is a sequence of encoded fields
buildEntry(typeID, id, fields) ==
    LET body == U16Bytes(typeID) \o U32Bytes(id) \o Concat(fields)
        l == writeU32FromInt(Len(body))
    IN IF ~l.ok THEN Fail ELSE Ok(<<6, 0, 13>> \o l.bytes \o body)

(***************************************************************************)
(* Tagged-list scanner and crossroad decode (crossroads.go).               *)
(***************************************************************************)
entryString(e, tag) ==
    LET hits == {i \in 1..Len(e.Fields) : e.Fields[i].Tag = tag /\ e.Fields[i].Type = 11}
    IN IF hits = {} THEN <<>> ELSE e.Fields[SetMin(hits)].Raw

entryColor(e, tag) ==
    LET hits == {i \in 1..Len(e.Fields) :
                    e.Fields[i].Tag = tag /\ e.Fields[i].Type = 8 /\ Len(e.Fields[i].Raw) >= 4}
    IN IF hits = {} THEN ZeroColor ELSE RawColor(e.Fields[SetMin(hits)].Raw)

entryByte(e, tag) ==
    LET hits == {i \in 1..Len(e.Fields) :
                    e.Fields[i].Tag = tag /\ e.Fields[i].Type = 9 /\ Len(e.Fields[i].Raw) >= 1}
    IN IF hits = {} THEN 0 ELSE e.Fields[SetMin(hits)].Raw[1]

\* entryU32: [ok, v]
entryU32(e, tag) ==
    LET hits == {i \in 1..Len(e.Fields) :
                    /\ e.Fields[i].Tag = tag
                    /\ e.Fields[i].Type \in {5, 13}
                    /\ Len(e.Fields[i].Raw) >= 4}
    IN IF hits = {} THEN [ok |-> FALSE, v |-> 0]
       ELSE [ok |-> TRUE, v |-> readU32(e.Fields[SetMin(hits)].Raw)]

validateCrossroadDefs(entries) ==
    \A i \in 1..Len(entries) :
        /\ entries[i].TypeID = 23
        /\ entryString(entries[i], 51) # <<>>
        /\ entryString(entries[i], 124) # <<>>

validateCrossroadLinks(entries) ==
    \A i \in 1..Len(entries) :
        /\ entries[i].TypeID = 26
        /\ entryString(entries[i], 145) # <<>>

NotFoundList ==
    [Found |-> FALSE, Tag |-> 0, Start |-> 0, ListLen |-> 0, Count |-> 0,
     FieldLen |-> 0, Entries |-> <<>>]

\* the candidate at offset i of findTaggedListAfter, before the validator
taggedCandidate(data, i, tag) ==
    IF ~MatchAt(data, i, <<tag, 0, 12>>) THEN NotFoundList
    ELSE LET listLen == readU32At(data, i + 3, Len(data))
             count   == readU32At(data, i + 7, Len(data))
         IN
         IF listLen < 4 THEN NotFoundList
         ELSE IF i + 11 + (listLen - 4) > Len(data) THEN NotFoundList
         ELSE LET withEntries(r) ==
                      IF ~r.ok THEN NotFoundList
                      ELSE [Found |-> TRUE, Tag |-> tag, Start |-> i, ListLen |-> listLen,
                            Count |-> count, FieldLen |-> 11 + (listLen - 4),
                            Entries |-> r.entries]
              IN withEntries(parseEntries(data, i + 11, listLen - 4, count, Len(data)))

\* findTaggedListAfter(data, from, tag, validate): Found is the ok result
findTaggedListAfter(data, from, tag, validate(_)) ==
    LET start == IF from < 0 THEN 0 ELSE from
        cands == {i \in start..(Len(data) - 11) :
                     /\ MatchAt(data, i, <<tag, 0, 12>>)
                     /\ \E c \in {taggedCandidate(data, i, tag)} :
                            c.Found /\ validate(c.Entries)}
    IN IF start >= Len(data) \/ cands = {} THEN NotFoundList
       ELSE taggedCandidate(data, SetMin(cands), tag)

idxToRoadType(types, idx) ==
    IF idx = -1 THEN <<>>
    ELSE IF idx >= Len(types) THEN <<>>
    ELSE types[idx + 1].Name

KrT == <<107, 114, 95, 116, 95>>   \* "kr_t_"

KrX == <<107, 114, 95, 120, 95>>   \* "kr_x_"

Underscore == <<95>>

\* parseCrossroadNameTypes: [ok, ab, c, d]
parseCrossroadNameTypes(name) ==
    IF HasPrefix(name, KrT) THEN
        LET parts == Split(SubSeq(name, 6, Len(name)), 95) IN
        IF Len(parts) # 2 THEN [ok |-> FALSE, ab |-> <<>>, c |-> <<>>, d |-> <<>>]
        ELSE [ok |-> TRUE, ab |-> parts[1], c |-> parts[2], d |-> <<>>]
    ELSE IF HasPrefix(name, KrX) THEN
        LET parts == Split(SubSeq(name, 6, Len(name)), 95) IN
        IF Len(parts) < 2 THEN [ok |-> FALSE, ab |-> <<>>, c |-> <<>>, d |-> <<>>]
        ELSE [ok |-> TRUE, ab |-> parts[1], c |-> parts[2],
              d |-> IF Len(parts) > 2 THEN Join(SubSeq(parts, 3, Len(parts)), Underscore)
                    ELSE parts[2]]
    ELSE [ok |-> FALSE, ab |-> <<>>, c |-> <<>>, d |-> <<>>]

\* entryToRaw: the EntryRaw [Type, ID, Fields] of an Entry; a FieldRaw is
\* [Tag, Type, Raw, List] with Raw the hex text of the payload
RECURSIVE entryToRaw(_)
entryToRaw(e) ==
    [Type |-> e.TypeID, ID |-> e.ID,
     Fields |-> [i \in 1..Len(e.Fields) |->
                    [Tag |-> e.Fields[i].Tag, Type |-> e.Fields[i].Type,
                     Raw |-> IF Len(e.Fields[i].Raw) > 0
                             THEN hexEncodeToString(e.Fields[i].Raw) ELSE <<>>,
                     List |-> [j \in 1..Len(e.Fields[i].List) |->
                                  entryToRaw(e.Fields[i].List[j])]]]]

crossroadHasRoadType(cr, rtName) ==
    LET want == ToLower(rtName) IN
    /\ want # <<>>
    /\ \/ ToLower(cr.Connections.A) = want
       \/ ToLower(cr.Connections.B) = want
       \/ ToLower(cr.Connections.C) = want
       \/ ToLower(cr.Connections.D) = want

\* one crossroad definition entry projected into a CrossroadType
decodeCrossroad(e, types, links) ==
    LET withConns(name, model, byIdx, nm) ==
            [Name |-> name, Model |-> model, Color |-> entryColor(e, 115),
             ColorCustom |-> entryByte(e, 113) # 0,
             Connections |->
                 IF byIdx.A = <<>> /\ byIdx.B = <<>> /\ byIdx.C = <<>> /\ byIdx.D = <<>>
                    /\ nm.ok
                 THEN [A |-> nm.ab, B |-> nm.ab, C |-> nm.c, D |-> nm.d]
                 ELSE byIdx,
             Default |-> <<>>,
             TV4PDef |-> <<entryToRaw(e)>>,
             \* linksByModel[model]: the last link entry whose 0x91 string is model
             TV4PLink |->
                 LET mine == {i \in 1..Len(links) :
                                 \E s \in {entryString(links[i], 145)} :
                                    s # <<>> /\ s = model}
                 IN IF mine = {} THEN <<>> ELSE <<entryToRaw(links[SetMax(mine)])>>]
        withIdx(name, model, a, b, c, d) ==
            withConns(name, model,
                      [A |-> IF a.ok THEN idxToRoadType(types, a.v) ELSE <<>>,
                       B |-> IF b.ok THEN idxToRoadType(types, b.v) ELSE <<>>,
                       C |-> IF c.ok THEN idxToRoadType(types, c.v) ELSE <<>>,
                       D |-> IF d.ok THEN idxToRoadType(types, d.v) ELSE <<>>],
                      parseCrossroadNameTypes(name))
        withName(name) ==
            withIdx(name, entryString(e, 124), entryU32(e, 132), entryU32(e, 133),
                    entryU32(e, 134), entryU32(e, 135))
    IN withName(entryString(e, 51))

\* the default derivation at the end of ParseRoadToolConfig
deriveDefaults(types, crs) ==
    [i \in 1..Len(crs) |->
        IF /\ i <= Min2(Len(types), Len(crs))
           /\ types[i].Name # <<>>
           /\ crs[i].Default = <<>>
           /\ crossroadHasRoadType(crs[i], types[i].Name)
        THEN [crs[i] EXCEPT !.Default = types[i].Name]
        ELSE crs[i]]

\* ParseRoadToolConfig: [ok, cfg]
ParseRoadToolConfig(data) ==
    LET withCrs(types, crs) ==
            [ok |-> TRUE,
             cfg |-> [Types |-> types, CrossroadTypes |-> deriveDefaults(types, crs),
                      CrossroadsNil |-> Len(crs) = 0]]
        withLinks(rtBlock, crDefs, crLinks) ==
            withCrs(rtBlock.Types,
                    [i \in 1..Len(crDefs.Entries) |->
                        decodeCrossroad(crDefs.Entries[i], rtBlock.Types, crLinks.Entries)])
        withDefs(rtBlock, crDefs) ==
            IF ~crDefs.Found
            THEN [ok |-> TRUE,
                  cfg |-> [Types |-> rtBlock.Types, CrossroadTypes |-> <<>>,
                           CrossroadsNil |-> TRUE]]
            ELSE withLinks(rtBlock, crDefs,
                           findTaggedListAfter(data, crDefs.Start + crDefs.FieldLen, 138,
                                               validateCrossroadLinks))
        withBlock(rtBlock) ==
            IF ~rtBlock.ok THEN [ok |-> FALSE, cfg |-> ZeroRoadConfig]
            ELSE withDefs(rtBlock,
                          findTaggedListAfter(data, rtBlock.Start + 7 + rtBlock.ListLen, 137,
                                              validateCrossroadDefs))
    IN withBlock(ParseRoadTypes(data))

(***************************************************************************)
(* Identifier allocator (write.go).  An allocator is [used, next].  The    *)
(* seed strings of the source are computed and then ignored                *)
(* (useOrDeterministic: "_ = seed"), so they are not carried.  Identifiers *)
(* of the model stay far below 2^32, so the uint32 wrap-around of next is  *)
(* never reached.                                                          *)
(***************************************************************************)
RECURSIVE SeqToSet(_)
SeqToSet(s) == IF s = <<>> THEN {} ELSE {Head(s)} \cup SeqToSet(Tail(s))

PartIDs(parts) == {parts[i].ID : i \in 1..Len(parts)} \ {0}

RoadTypeIDs(rt) ==
    ({rt.ID} \ {0}) \cup PartIDs(rt.StraightParts) \cup PartIDs(rt.CornerParts)
        \cup PartIDs(rt.TerminatorPart)

Align4(n) == IF n % 4 # 0 THEN n + (4 - (n % 4)) ELSE n

newIDAllocator(cfg, existing) ==
    LET used == (existing \ {0})
                \cup UNION {RoadTypeIDs(cfg.Types[i]) : i \in 1..Len(cfg.Types)}
        maxUsed == IF used = {} THEN 0 ELSE SetMax(used)
    IN [used |-> used, next |-> Align4(maxUsed + 1)]

\* allocNext: [id, alloc]
RECURSIVE allocNext(_)
allocNext(a) ==
    IF a.next = 0 \/ a.next \in a.used
    THEN allocNext([a EXCEPT !.next = a.next + 1])
    ELSE [id |-> a.next, alloc |-> [used |-> a.used \cup {a.next}, next |-> a.next + 1]]

\* useOrDeterministic: [id, alloc]
useOrDeterministic(a, id) ==
    IF id # 0 THEN [id |-> id, alloc |-> [a EXCEPT !.used = a.used \cup {id}]]
    ELSE allocNext(a)

\* collectEntryIDs: every non-zero identifier behind an entry-header marker
collectEntryIDs(data) ==
    {readU32At(data, i + 9, Len(data)) :
        i \in {j \in 0..(Len(data) - 8) :
                 /\ MatchAt(data, j, <<6, 0, 13>>)
                 /\ readU32At(data, j + 3, Len(data)) >= 6
                 /\ j + 7 + readU32At(data, j + 3, Len(data)) <= Len(data)}} \ {0}

(***************************************************************************)
(* Road-type encoding (write.go).  Builders return [ok, bytes, alloc] or,  *)
(* for lists of entries, [ok, entries, alloc].                             *)
(***************************************************************************)
\* the flag field written by the part's type tag instead of by the list
RECURSIVE buildPartsListFlagByType(_, _, _, _)
buildPartsListFlagByType(parts, defaultType, includeFlag, alloc) ==
    IF parts = <<>> THEN [ok |-> TRUE, entries |-> <<>>, alloc |-> alloc]
    ELSE
    LET p == Head(parts)
        typ == IF p.Type = 0 THEN defaultType ELSE p.Type
        withRest(entry, rest) ==
            IF ~rest.ok THEN rest
            ELSE [ok |-> TRUE, entries |-> <<entry.bytes>> \o rest.entries,
                  alloc |-> rest.alloc]
        withEntry(got, entry) ==
            IF ~entry.ok THEN [ok |-> FALSE, entries |-> <<>>, alloc |-> alloc]
            ELSE withRest(entry,
                          buildPartsListFlagByType(Tail(parts), defaultType, includeFlag,
                                                   got.alloc))
        withFields(nameField, pathField, got) ==
            IF ~nameField.ok \/ ~pathField.ok
            THEN [ok |-> FALSE, entries |-> <<>>, alloc |-> alloc]
            ELSE withEntry(got,
                           buildEntry(typ, got.id,
                                      <<nameField.bytes, pathField.bytes>>
                                      \o (IF typ = 19 THEN <<fieldByte(125, 0)>> ELSE <<>>)
                                      \o <<fieldBytes(126, Zero8)>>))
    IN withFields(fieldString(51, p.Name), fieldString(124, p.Path),
                  useOrDeterministic(alloc, p.ID))

RECURSIVE buildPartsList(_, _, _, _)
buildPartsList(parts, defaultType, includeFlag, alloc) ==
    IF parts = <<>> THEN [ok |-> TRUE, entries |-> <<>>, alloc |-> alloc]
    ELSE
    LET p == Head(parts)
        withRest(entry, rest) ==
            IF ~rest.ok THEN rest
            ELSE [ok |-> TRUE, entries |-> <<entry.bytes>> \o rest.entries,
                  alloc |-> rest.alloc]
        withEntry(got, entry) ==
            IF ~entry.ok THEN [ok |-> FALSE, entries |-> <<>>, alloc |-> alloc]
            ELSE withRest(entry,
                          buildPartsList(Tail(parts), defaultType, includeFlag, got.alloc))
        withFields(nameField, pathField, got) ==
            IF ~nameField.ok \/ ~pathField.ok
            THEN [ok |-> FALSE, entries |-> <<>>, alloc |-> alloc]
            ELSE withEntry(got,
                           buildEntry(IF p.Type = 0 THEN defaultType ELSE p.Type, got.id,
                                      <<nameField.bytes, pathField.bytes>>
                                      \o (IF includeFlag THEN <<fieldByte(125, 0)>> ELSE <<>>)
                                      \o <<fieldBytes(126, Zero8)>>))
    IN withFields(fieldString(51, p.Name), fieldString(124, p.Path),
                  useOrDeterministic(alloc, p.ID))

\* the entry of buildRoadTypeEntry once its list fields (straight, corners,
\* empty, terminators) and its identifier are known
roadTypeEntryBytes(rt, alloc, nameField, straight, corners, empty, terminators, got) ==
    IF ~nameField.ok \/ ~straight.ok \/ ~corners.ok \/ ~empty.ok \/ ~terminators.ok
    THEN [ok |-> FALSE, bytes |-> <<>>, alloc |-> alloc]
    ELSE LET withEntry(entry) ==
                 IF ~entry.ok THEN [ok |-> FALSE, bytes |-> <<>>, alloc |-> alloc]
                 ELSE [ok |-> TRUE, bytes |-> entry.bytes, alloc |-> got.alloc]
         IN withEntry(buildEntry(IF rt.Type = 0 THEN 18 ELSE rt.Type, got.id,
                         <<nameField.bytes,
                           fieldByte(113, boolByte(rt.KeyCustom)),
                           fieldByte(114, boolByte(rt.NormalCustom)),
                           fieldColor(115, rt.NormalColor, rt.NormalCustom),
                           fieldColor(116, rt.KeyColor, rt.KeyCustom),
                           fieldByte(117, 0),
                           fieldBytes(118, Zero8),
                           fieldBytes(119, Zero8),
                           straight.bytes, corners.bytes, empty.bytes,
                           terminators.bytes>>))

buildRoadTypeEntry(rt, alloc) ==
    LET withTerminators(straight, corners, terminators) ==
            IF ~straight.ok \/ ~corners.ok \/ ~terminators.ok
            THEN [ok |-> FALSE, bytes |-> <<>>, alloc |-> alloc]
            ELSE roadTypeEntryBytes(rt, alloc, fieldString(51, rt.Name),
                                    fieldList(120, straight.entries),
                                    fieldList(121, corners.entries),
                                    fieldList(122, <<>>),
                                    fieldList(123, terminators.entries),
                                    useOrDeterministic(terminators.alloc, rt.ID))
        withCorners(straight, corners) ==
            withTerminators(straight, corners,
                            buildPartsList(rt.TerminatorPart, 22, FALSE, corners.alloc))
        withStraight(straight) ==
            withCorners(straight, buildPartsList(rt.CornerParts, 20, FALSE, straight.alloc))
    IN withStraight(buildPartsList(rt.StraightParts, 19, TRUE, alloc))

RECURSIVE buildRoadTypesLoop(_, _)
buildRoadTypesLoop(types, alloc) ==
    IF types = <<>> THEN [ok |-> TRUE, entries |-> <<>>, alloc |-> alloc]
    ELSE LET withRest(e, rest) ==
                 IF ~rest.ok THEN rest
                 ELSE [ok |-> TRUE, entries |-> <<e.bytes>> \o rest.entries,
                       alloc |-> rest.alloc]
             withEntry(e) ==
                 IF ~e.ok THEN [ok |-> FALSE, entries |-> <<>>, alloc |-> alloc]
                 ELSE withRest(e, buildRoadTypesLoop(Tail(types), e.alloc))
         IN withEntry(buildRoadTypeEntry(Head(types), alloc))

buildRoadTypesEntries(cfg, existingIDs) ==
    buildRoadTypesLoop(cfg.Types, newIDAllocator(cfg, existingIDs))

(***************************************************************************)
(* Identifier inheritance and the road-type progression (write.go).        *)
(***************************************************************************)
\* byPath / byKey of inheritPartListIDs: the last source part wins
inheritPartID(p, src) ==
    LET byPath == {i \in 1..Len(src) :
                      /\ src[i].ID # 0
                      /\ src[i].Path # <<>>
                      /\ ToLower(src[i].Path) = ToLower(p.Path)}
        byKey == {i \in 1..Len(src) :
                     /\ src[i].ID # 0
                     /\ ToLower(src[i].Name) = ToLower(p.Name)
                     /\ ToLower(src[i].Path) = ToLower(p.Path)}
    IN IF p.ID # 0 THEN p
       ELSE IF p.Path # <<>> /\ byPath # {} THEN [p EXCEPT !.ID = src[SetMax(byPath)].ID]
       ELSE IF byKey # {} THEN [p EXCEPT !.ID = src[SetMax(byKey)].ID]
       ELSE p

inheritPartListIDs(dst, src) == [i \in 1..Len(dst) |-> inheritPartID(dst[i], src)]

\* inheritExistingRoadTypeIDs: the road types of the config afterwards
inheritExistingRoadTypeIDs(types, existingTypes) ==
    [i \in 1..Len(types) |->
        LET rt == types[i]
            named == {k \in 1..Len(existingTypes) :
                         /\ existingTypes[k].Name # <<>>
                         /\ ToLower(existingTypes[k].Name) = ToLower(rt.Name)}
        IN IF named = {} THEN rt
           ELSE LET ex == existingTypes[SetMax(named)] IN
                [rt EXCEPT
                    !.ID = IF rt.ID = 0 /\ ex.ID # 0 THEN ex.ID ELSE rt.ID,
                    !.StraightParts = inheritPartListIDs(rt.StraightParts, ex.StraightParts),
                    !.CornerParts = inheritPartListIDs(rt.CornerParts, ex.CornerParts),
                    !.TerminatorPart = inheritPartListIDs(rt.TerminatorPart, ex.TerminatorPart)]]

RoadTypeStride == 72

DefaultRemainder == 12

\* the next identifier of the series taken without looking at the used set
nextInSeriesUnchecked(next, used) == next

RECURSIVE nextFreeInSeries(_, _)
nextFreeInSeries(next, used) ==
    IF next = 0 \/ next \in used THEN nextFreeInSeries(next + RoadTypeStride, used) ELSE next

RECURSIVE assignSeries(_, _, _)
assignSeries(types, next, used) ==
    IF types = <<>> THEN [types |-> <<>>, used |-> used]
    ELSE IF Head(types).ID # 0
    THEN LET rest == assignSeries(Tail(types), next, used) IN
         [types |-> <<Head(types)>> \o rest.types, used |-> rest.used]
    ELSE LET id == nextFreeInSeries(next, used)
             rest == assignSeries(Tail(types), id + RoadTypeStride, used \cup {id})
         IN [types |-> <<[Head(types) EXCEPT !.ID = id]>> \o rest.types,
             used |-> rest.used]

\* applySequentialRoadTypeIDs: [types, used]: the road types of the config and
\* the existingIDs set afterwards
applySequentialRoadTypeIDs(types, existingTypes, existingIDs) ==
    LET ids == [i \in 1..(Len(existingTypes) + Len(types)) |->
                   IF i <= Len(existingTypes) THEN existingTypes[i].ID
                   ELSE types[i - Len(existingTypes)].ID]
        nz == {i \in 1..Len(ids) : ids[i] # 0}
        haveRem == nz # {}
        rem == IF haveRem THEN ids[SetMin(nz)] % RoadTypeStride ELSE DefaultRemainder
        maxID == IF haveRem THEN SetMax({ids[i] : i \in nz}) ELSE 0
        next0 == maxID + RoadTypeStride
        off == next0 % RoadTypeStride
        next == IF off = rem THEN next0
                ELSE IF off < rem THEN next0 + (rem - off)
                ELSE next0 + (RoadTypeStride - off) + rem
    IN assignSeries(types, next, existingIDs)

(***************************************************************************)
(* Crossroad validation, default reordering (validate.go, write.go).       *)
(***************************************************************************)
\* nameSet of ValidateCrossroads: lower-cased names of the road types whose
\* trimmed name is not empty
validNameSet(roadTypes) ==
    {ToLower(roadTypes[i].Name) :
        i \in {k \in 1..Len(roadTypes) : TrimSpace(roadTypes[k].Name) # <<>>}}

Sides(cr) == <<cr.Connections.A, cr.Connections.B, cr.Connections.C, cr.Connections.D>>

\* the check of one crossroad without the duplicate-default test
validateOneNoDuplicateTest(cr, nameSet, seenDefault) ==
    LET d == ToLower(TrimSpace(cr.Default)) IN
    IF \E k \in 1..4 : /\ TrimSpace(Sides(cr)[k]) # <<>>
                       /\ ToLower(TrimSpace(Sides(cr)[k])) \notin nameSet
    THEN "unknown road type for connection"
    ELSE IF TrimSpace(cr.Default) = <<>> THEN ""
    ELSE IF d \notin nameSet THEN "default refers to unknown road type"
    ELSE IF ~crossroadHasRoadType(cr, cr.Default) THEN "default not present in connections"
    ELSE ""

\* the check of one crossroad inside the loop of ValidateCrossroads, given the
\* defaults seen so far: "" when it passes, else the error
validateOne(cr, nameSet, seenDefault) ==
    LET d == ToLower(TrimSpace(cr.Default)) IN
    IF \E k \in 1..4 : /\ TrimSpace(Sides(cr)[k]) # <<>>
                       /\ ToLower(TrimSpace(Sides(cr)[k])) \notin nameSet
    THEN "unknown road type for connection"
    ELSE IF TrimSpace(cr.Default) = <<>> THEN ""
    ELSE IF d \notin nameSet THEN "default refers to unknown road type"
    ELSE IF ~crossroadHasRoadType(cr, cr.Default) THEN "default not present in connections"
    ELSE IF d \in seenDefault THEN "duplicate crossroad default"
    ELSE ""

RECURSIVE validateLoop(_, _, _)
validateLoop(crs, nameSet, seenDefault) ==
    IF crs = <<>> THEN ""
    ELSE LET e == validateOne(Head(crs), nameSet, seenDefault) IN
         IF e # "" THEN e
         ELSE validateLoop(Tail(crs), nameSet,
                 IF TrimSpace(Head(crs).Default) # <<>>
                 THEN seenDefault \cup {ToLower(TrimSpace(Head(crs).Default))}
                 ELSE seenDefault)

\* ValidateCrossroads: "" is the nil error
ValidateCrossroads(crossroads, roadTypes) ==
    validateLoop(crossroads, validNameSet(roadTypes), {})

shouldReorderCrossroads(cfg) ==
    /\ Len(cfg.CrossroadTypes) # 0
    /\ Len(cfg.Types) # 0
    /\ \/ \E i \in 1..Len(cfg.CrossroadTypes) :
             TrimSpace(cfg.CrossroadTypes[i].Default) # <<>>
       \/ \E i \in 1..Len(cfg.CrossroadTypes) :
             cfg.CrossroadTypes[i].TV4PDef = <<>> /\ cfg.CrossroadTypes[i].TV4PLink = <<>>

shapeScore(cr) ==
    IF HasPrefix(cr.Name, KrT) THEN 2 ELSE IF HasPrefix(cr.Name, KrX) THEN 1 ELSE 0

\* matchScore of reorderCrossroadsByRoadTypeIndex and selectDefaultCrossroads;
\* want is already lower-case
matchScore(cr, want) ==
    IF TrimSpace(cr.Default) # <<>> /\ ToLower(TrimSpace(cr.Default)) = want
    THEN 1000 + shapeScore(cr)
    ELSE IF ToLower(cr.Connections.A) = want /\ ToLower(cr.Connections.B) = want
    THEN 100 + shapeScore(cr)
    ELSE IF ToLower(cr.Connections.A) = want \/ ToLower(cr.Connections.B) = want
    THEN 80 + shapeScore(cr)
    ELSE IF ToLower(cr.Connections.C) = want \/ ToLower(cr.Connections.D) = want
    THEN 60 + shapeScore(cr)
    ELSE -1

\* the first index of cands with the greatest score (0 when cands is empty)
BestIndex(cands, score(_)) ==
    IF cands = {} THEN 0
    ELSE SetMin({j \in cands : \A k \in cands : score(k) <= score(j)})

\* the assignment of one position only, the other keeps its entry
SwapOneSided(s, i, j) == [s EXCEPT ![i] = s[j]]

Swap(s, i, j) == [s EXCEPT ![i] = s[j], ![j] = s[i]]

\* one iteration of the rtIdx loop (rtIdx is 1-based here)
RECURSIVE reorderLoop(_, _, _, _, _)
reorderLoop(types, crs, locked, rtIdx, limit) ==
    IF rtIdx > limit THEN crs
    ELSE
    LET wantAB == ToLower(types[rtIdx].Name)
        cands == {j \in 1..Len(crs) :
                     /\ ~(j \in locked /\ j # rtIdx)
                     /\ matchScore(crs[j], wantAB) >= 0}
        sc(j) == matchScore(crs[j], wantAB)
        bestJ == BestIndex(cands, sc)
    IN
    IF wantAB = <<>> \/ bestJ = 0 \/ bestJ = rtIdx
    THEN reorderLoop(types, crs, locked, rtIdx + 1, limit)
    ELSE reorderLoop(types, Swap(crs, rtIdx, bestJ), locked \cup {rtIdx}, rtIdx + 1, limit)

\* reorderCrossroadsByRoadTypeIndex: the crossroad list afterwards
reorderCrossroadsByRoadTypeIndex(cfg) ==
    IF Len(cfg.Types) = 0 \/ Len(cfg.CrossroadTypes) = 0 THEN cfg.CrossroadTypes
    ELSE reorderLoop(cfg.Types, cfg.CrossroadTypes, {}, 1,
                     Min2(Len(cfg.Types), Len(cfg.CrossroadTypes)))

(***************************************************************************)
(* Raw entry replay (write.go): rawEntryToBytes and rawFieldToBytes.       *)
(***************************************************************************)
RECURSIVE rawEntryToBytes(_, _)
RECURSIVE rawEntriesToBytes(_, _)
RECURSIVE rawFieldsToBytes(_, _)

\* rawFieldToBytes: [ok, bytes, alloc]
rawFieldToBytes(f, alloc) ==
    IF f.Type = 12 THEN
        LET withField(sub, fl) ==
                IF ~sub.ok \/ ~fl.ok THEN [ok |-> FALSE, bytes |-> <<>>, alloc |-> alloc]
                ELSE [ok |-> TRUE, bytes |-> fl.bytes, alloc |-> sub.alloc]
            withSub(sub) == withField(sub, fieldList(f.Tag, sub.entries))
        IN withSub(rawEntriesToBytes(f.List, alloc))
    ELSE IF f.Type = 11 THEN
        LET withLen(raw, l) ==
                IF ~raw.ok \/ ~l.ok THEN [ok |-> FALSE, bytes |-> <<>>, alloc |-> alloc]
                ELSE [ok |-> TRUE, bytes |-> <<f.Tag, 0, f.Type>> \o l.bytes \o raw.bytes,
                      alloc |-> alloc]
            withRaw(raw) == withLen(raw, writeU16FromInt(Len(raw.bytes)))
        IN withRaw(decodeHex(f.Raw))
    ELSE IF f.Type \in {9, 8, 20, 5, 13, 21, 32} THEN
        LET withRaw(raw) ==
                IF ~raw.ok THEN [ok |-> FALSE, bytes |-> <<>>, alloc |-> alloc]
                ELSE [ok |-> TRUE, bytes |-> <<f.Tag, 0, f.Type>> \o raw.bytes,
                      alloc |-> alloc]
        IN withRaw(decodeHex(f.Raw))
    ELSE [ok |-> FALSE, bytes |-> <<>>, alloc |-> alloc]

\* the field loop of rawEntryToBytes: [ok, fields, alloc]
rawFieldsToBytes(fields, alloc) ==
    IF fields = <<>> THEN [ok |-> TRUE, fields |-> <<>>, alloc |-> alloc]
    ELSE LET withRest(b, rest) ==
                 IF ~rest.ok THEN rest
                 ELSE [ok |-> TRUE, fields |-> <<b.bytes>> \o rest.fields,
                       alloc |-> rest.alloc]
             withField(b) ==
                 IF ~b.ok THEN [ok |-> FALSE, fields |-> <<>>, alloc |-> alloc]
                 ELSE withRest(b, rawFieldsToBytes(Tail(fields), b.alloc))
         IN withField(rawFieldToBytes(Head(fields), alloc))

\* the nested-list loop of rawFieldToBytes: [ok, entries, alloc]
rawEntriesToBytes(list, alloc) ==
    IF list = <<>> THEN [ok |-> TRUE, entries |-> <<>>, alloc |-> alloc]
    ELSE LET withRest(b, rest) ==
                 IF ~rest.ok THEN rest
                 ELSE [ok |-> TRUE, entries |-> <<b.bytes>> \o rest.entries,
                       alloc |-> rest.alloc]
             withEntry(b) ==
                 IF ~b.ok THEN [ok |-> FALSE, entries |-> <<>>, alloc |-> alloc]
                 ELSE withRest(b, rawEntriesToBytes(Tail(list), b.alloc))
         IN withEntry(rawEntryToBytes(Head(list), alloc))

\* rawEntryToBytes: [ok, bytes, alloc]
rawEntryToBytes(e, alloc) ==
    IF e.Type = 0 THEN [ok |-> FALSE, bytes |-> <<>>, alloc |-> alloc]
    ELSE LET withEntry(fs, ent) ==
                 IF ~fs.ok \/ ~ent.ok THEN [ok |-> FALSE, bytes |-> <<>>, alloc |-> alloc]
                 ELSE [ok |-> TRUE, bytes |-> ent.bytes, alloc |-> fs.alloc]
             withFields(got, fs) == withEntry(fs, buildEntry(e.Type, got.id, fs.fields))
             withID(got) == withFields(got, rawFieldsToBytes(e.Fields, got.alloc))
         IN withID(IF e.ID = 0 THEN allocNext(alloc) ELSE [id |-> e.ID, alloc |-> alloc])

(***************************************************************************)
(* Crossroad encoding (write.go).                                          *)
(***************************************************************************)
CrossroadStride == 376

MaxBaseAttempts == 4096

\* nameToIdx of buildCrossroadFields: exact name -> 0-based index, last wins;
\* [ok, idx]
nameToIdx(types, name) ==
    LET hits == {i \in 1..Len(types) : types[i].Name = name} IN
    IF hits = {} THEN [ok |-> FALSE, idx |-> 0] ELSE [ok |-> TRUE, idx |-> SetMax(hits) - 1]

\* positions (1-based) of the crossroads without a raw definition
NeedDefID(crossroads) == {i \in 1..Len(crossroads) : crossroads[i].TV4PDef = <<>>}

\* one attempt of allocateCrossroadDefIDs succeeds when no candidate is 0 or used
\* (identifiers of the model never pass 0xFFFFFFFF)
attemptOK(crossroads, used, cur) ==
    \A i \in NeedDefID(crossroads) :
        LET id == cur + (i - 1) * CrossroadStride IN id # 0 /\ id \notin used

RECURSIVE firstGoodAttempt(_, _, _, _)
firstGoodAttempt(crossroads, used, base, attempt) ==
    IF attempt >= MaxBaseAttempts THEN -1
    ELSE IF attemptOK(crossroads, used, base + attempt) THEN attempt
    ELSE firstGoodAttempt(crossroads, used, base, attempt + 1)

RECURSIVE allocEach(_, _, _)
allocEach(crossroads, i, alloc) ==
    IF i > Len(crossroads) THEN [ids |-> <<>>, alloc |-> alloc]
    ELSE IF crossroads[i].TV4PDef # <<>>
    THEN LET rest == allocEach(crossroads, i + 1, alloc) IN
         [ids |-> <<0>> \o rest.ids, alloc |-> rest.alloc]
    ELSE LET got == allocNext(alloc)
             rest == allocEach(crossroads, i + 1, got.alloc)
         IN [ids |-> <<got.id>> \o rest.ids, alloc |-> rest.alloc]

\* the identifiers taken one by one, without the search for a base
allocateOneByOne(crossroads, alloc) == allocEach(crossroads, 1, alloc)

\* allocateCrossroadDefIDs: [ids, alloc]; ids[i] = 0 for a crossroad with a
\* raw definition
allocateCrossroadDefIDs(crossroads, alloc) ==
    IF NeedDefID(crossroads) = {}
    THEN [ids |-> [i \in 1..Len(crossroads) |-> 0], alloc |-> alloc]
    ELSE
    LET base == Align4(alloc.next)
        att == firstGoodAttempt(crossroads, alloc.used, base, 0)
    IN
    IF att < 0 THEN allocEach(crossroads, 1, alloc)
    ELSE LET ids == [i \in 1..Len(crossroads) |->
                        IF crossroads[i].TV4PDef = <<>>
                        THEN base + att + (i - 1) * CrossroadStride ELSE 0]
             new == {ids[i] : i \in 1..Len(ids)} \ {0}
             nxt == Max2(alloc.next, SetMax(new) + 1)
         IN [ids |-> ids,
             alloc |-> [used |-> alloc.used \cup new, next |-> Align4(nxt)]]

RawField(tag, typ, raw) == [Tag |-> tag, Type |-> typ, Raw |-> raw, List |-> <<>>]

Hex00 == hexEncodeToString(<<0>>)

Hex01 == hexEncodeToString(<<1>>)

HexZero8 == hexEncodeToString(Zero8)

\* buildCrossroadDefEntry: [ok, bytes, alloc]
buildCrossroadDefEntry(cr, alloc, types, forcedID) ==
    IF cr.TV4PDef # <<>> /\ cr.TV4PDef[1].Type = 23
    THEN rawEntryToBytes(cr.TV4PDef[1], alloc)
    ELSE
    LET shapeU32 == IF HasPrefix(cr.Name, KrX) THEN 3 ELSE 2
        look(n) == IF n = <<>> THEN [ok |-> TRUE, idx |-> -1] ELSE nameToIdx(types, n)
        a == look(cr.Connections.A)
        b == look(cr.Connections.B)
        c == look(cr.Connections.C)
        d == look(cr.Connections.D)
        raw == [Type |-> 23, ID |-> forcedID,
                Fields |-> <<
                    RawField(51, 11, hexEncodeToString(cr.Name)),
                    RawField(124, 11, hexEncodeToString(cr.Model)),
                    RawField(127, 5, u32Hex(shapeU32)),
                    RawField(113, 9, IF cr.ColorCustom THEN Hex01 ELSE Hex00),
                    RawField(115, 8, IF cr.ColorCustom THEN rgbaHex(cr.Color)
                                     ELSE hexEncodeToString(<<0, 0, 255, 0>>)),
                    RawField(117, 9, Hex00),
                    RawField(128, 20, HexZero8),
                    RawField(129, 20, HexZero8),
                    RawField(130, 20, HexZero8),
                    RawField(131, 9, Hex00),
                    RawField(132, 5, u32Hex(a.idx)),
                    RawField(133, 5, u32Hex(b.idx)),
                    RawField(134, 5, u32Hex(c.idx)),
                    RawField(135, 5, u32Hex(d.idx))>>]
    IN IF ~a.ok \/ ~b.ok \/ ~c.ok \/ ~d.ok
       THEN [ok |-> FALSE, bytes |-> <<>>, alloc |-> alloc]
       ELSE rawEntryToBytes(raw, alloc)

\* s < t in Go's string order
RECURSIVE StrLess(_, _)
StrLess(s, t) ==
    IF t = <<>> THEN FALSE
    ELSE IF s = <<>> THEN TRUE
    ELSE IF Head(s) # Head(t) THEN Head(s) < Head(t)
    ELSE StrLess(Tail(s), Tail(t))

\* the fallback loop of refFor: the lexicographically smallest straight part
RECURSIVE smallestPart(_, _, _)
smallestPart(parts, bestName, bestPath) ==
    IF parts = <<>> THEN bestPath
    ELSE IF bestName = <<>> \/ StrLess(Head(parts).Name, bestName)
    THEN smallestPart(Tail(parts), Head(parts).Name, Head(parts).Path)
    ELSE smallestPart(Tail(parts), bestName, bestPath)

\* refFor of buildCrossroadSideLists: [ok, path]
refFor(roadTypes, rtName) ==
    IF rtName = <<>> THEN [ok |-> TRUE, path |-> <<>>]
    ELSE LET hits == {i \in 1..Len(roadTypes) : roadTypes[i].Name = rtName} IN
         IF hits = {} THEN [ok |-> FALSE, path |-> <<>>]
         ELSE LET rt == roadTypes[SetMax(hits)]
                  want == rtName \o <<95, 49, 50>>            \* "_12"
                  exact == {i \in 1..Len(rt.StraightParts) : rt.StraightParts[i].Name = want}
              IN [ok |-> TRUE,
                  path |-> IF exact # {} THEN rt.StraightParts[SetMin(exact)].Path
                           ELSE smallestPart(rt.StraightParts, <<>>, <<>>)]

\* mkRefEntry with the identifier already drawn
mkRefEntry(id, path) ==
    [Type |-> 27, ID |-> id,
     Fields |-> <<RawField(127, 5, u32Hex(3)), RawField(108, 5, u32Hex(1)),
                  RawField(51, 11, hexEncodeToString(path))>>]

\* the identifiers mkRefEntry draws for the sides with a path, in order A..D:
\* [ids, alloc], ids[k] = 0 for a side without a path
RECURSIVE sideRefIDs(_, _)
sideRefIDs(paths, alloc) ==
    IF paths = <<>> THEN [ids |-> <<>>, alloc |-> alloc]
    ELSE IF Head(paths) = <<>>
    THEN LET rest == sideRefIDs(Tail(paths), alloc) IN
         [ids |-> <<0>> \o rest.ids, alloc |-> rest.alloc]
    ELSE LET got == allocNext(alloc)
             rest == sideRefIDs(Tail(paths), got.alloc)
         IN [ids |-> <<got.id>> \o rest.ids, alloc |-> rest.alloc]

\* vec2f64Hex(0, 0): a count byte and two float64 zeros
Vec2Zero == hexEncodeToString(<<2>> \o Zero8 \o Zero8)

\* buildCrossroadLinkEntry: [ok, bytes, alloc]
buildCrossroadLinkEntry(cr, alloc, roadTypes) ==
    IF cr.TV4PLink # <<>> /\ cr.TV4PLink[1].Type = 26
    THEN rawEntryToBytes(cr.TV4PLink[1], alloc)
    ELSE
    LET shapeU32 == IF HasPrefix(cr.Name, KrX) THEN 3 ELSE 2
        withRefIDs(got, ra, refs) ==
            rawEntryToBytes(
                [Type |-> 26, ID |-> got.id,
                 Fields |-> <<
                    RawField(140, 20, HexZero8),
                    RawField(141, 20, HexZero8),
                    RawField(142, 21, Vec2Zero),
                    RawField(143, 5, u32Hex(0)),
                    RawField(144, 5, u32Hex(shapeU32)),
                    RawField(145, 11, hexEncodeToString(cr.Model)),
                    [Tag |-> 146, Type |-> 12, Raw |-> <<>>,
                     List |-> IF ra.path # <<>> THEN <<mkRefEntry(refs.ids[1], ra.path)>>
                              ELSE <<>>],
                    [Tag |-> 147, Type |-> 12, Raw |-> <<>>, List |-> <<>>],
                    [Tag |-> 148, Type |-> 12, Raw |-> <<>>, List |-> <<>>],
                    [Tag |-> 149, Type |-> 12, Raw |-> <<>>, List |-> <<>>]>>],
                refs.alloc)
        withRefs(got, ra, rb, rc, rd) ==
            IF ~ra.ok \/ ~rb.ok \/ ~rc.ok \/ ~rd.ok
            THEN [ok |-> FALSE, bytes |-> <<>>, alloc |-> alloc]
            ELSE withRefIDs(got, ra,
                            sideRefIDs(<<ra.path, rb.path, rc.path, rd.path>>, got.alloc))
    IN withRefs(allocNext(alloc),
                refFor(roadTypes, cr.Connections.A), refFor(roadTypes, cr.Connections.B),
                refFor(roadTypes, cr.Connections.C), refFor(roadTypes, cr.Connections.D))

RECURSIVE buildDefEntries(_, _, _, _, _)
buildDefEntries(crs, i, alloc, types, defIDs) ==
    IF i > Len(crs) THEN [ok |-> TRUE, entries |-> <<>>, alloc |-> alloc]
    ELSE LET withRest(e, rest) ==
                 IF ~rest.ok THEN rest
                 ELSE [ok |-> TRUE, entries |-> <<e.bytes>> \o rest.entries,
                       alloc |-> rest.alloc]
             withEntry(e) ==
                 IF ~e.ok THEN [ok |-> FALSE, entries |-> <<>>, alloc |-> alloc]
                 ELSE withRest(e, buildDefEntries(crs, i + 1, e.alloc, types, defIDs))
         IN withEntry(buildCrossroadDefEntry(crs[i], alloc, types, defIDs[i]))

\* the first crossroad with a raw link entry (0 when there is none)
pickedLink(crs) ==
    LET picked == {i \in 1..Len(crs) :
                      crs[i].TV4PLink # <<>> /\ crs[i].TV4PLink[1].Type = 26}
    IN IF picked = {} THEN 0 ELSE SetMin(picked)

\* the link list field of buildCrossroadFields, from the entry built for the
\* picked crossroad (p = 0: no entry)
buildLinkList(alloc0, ids, defField, p, link, linkField) ==
    IF ~link.ok \/ ~linkField.ok
    THEN [ok |-> FALSE, defField |-> <<>>, linkField |-> <<>>,
          defIDs |-> ids.ids, alloc |-> alloc0]
    ELSE [ok |-> TRUE, defField |-> defField.bytes, linkField |-> linkField.bytes,
          defIDs |-> ids.ids, alloc |-> link.alloc]

buildLinkEntry(alloc0, ids, defField, p, link) ==
    buildLinkList(alloc0, ids, defField, p, link,
                  fieldList(138, IF p = 0 THEN <<>> ELSE <<link.bytes>>))

\* the link half of buildCrossroadFields, after the definition field was built
buildLinkField(cfg, alloc0, ids, defs, defField, p) ==
    buildLinkEntry(alloc0, ids, defField, p,
                   IF p = 0 THEN [ok |-> TRUE, bytes |-> <<>>, alloc |-> defs.alloc]
                   ELSE buildCrossroadLinkEntry(cfg.CrossroadTypes[p], defs.alloc,
                                                cfg.Types))

\* buildCrossroadFields once the definition entries were built
buildDefField(cfg, includeLinks, alloc0, ids, defs, defField) ==
    IF ~defs.ok \/ ~defField.ok
    THEN [ok |-> FALSE, defField |-> <<>>, linkField |-> <<>>,
          defIDs |-> ids.ids, alloc |-> alloc0]
    ELSE IF ~includeLinks
    THEN [ok |-> TRUE, defField |-> defField.bytes, linkField |-> <<>>,
          defIDs |-> ids.ids, alloc |-> defs.alloc]
    ELSE buildLinkField(cfg, alloc0, ids, defs, defField, pickedLink(cfg.CrossroadTypes))

\* buildCrossroadFields once the definition identifiers were drawn
buildDefList(cfg, includeLinks, alloc0, ids, defs) ==
    buildDefField(cfg, includeLinks, alloc0, ids, defs, fieldList(137, defs.entries))

\* buildCrossroadFields with its allocator
buildWithAlloc(cfg, includeLinks, alloc0, ids) ==
    buildDefList(cfg, includeLinks, alloc0, ids,
                 buildDefEntries(cfg.CrossroadTypes, 1, ids.alloc, cfg.Types, ids.ids))

\* buildCrossroadFields: [ok, defField, linkField, defIDs, alloc]
buildCrossroadFields(cfg, existingIDs, includeLinks) ==
    buildWithAlloc(cfg, includeLinks, newIDAllocator(cfg, existingIDs),
                   allocateCrossroadDefIDs(cfg.CrossroadTypes,
                                           newIDAllocator(cfg, existingIDs)))

(***************************************************************************)
(* Offset patcher (write.go).                                              *)
(***************************************************************************)
\* IncludesRoads with the scope test dropped
IncludesRoadsAnyScope(scope) == scope \in {"all", "roads", "crossroads"}

IncludesRoads(scope) == scope \in {"all", "roads"}

\* IncludesCrossroads with the scope test dropped
IncludesCrossroadsAnyScope(scope) == scope \in {"all", "crossroads", "roads"}

IncludesCrossroads(scope) == scope \in {"all", "crossroads"}

\* cur + delta, clamped at 0, as adjustOffsetsByTag and adjustU32FieldInSlice do
ClampAdd(cur, delta) == IF cur + delta < 0 THEN 0 ELSE cur + delta

\* adjustU32FieldInSlice: [ok, bytes], bytes the slice afterwards
adjustU32FieldInSlice(b, tag, typ, delta) ==
    IF delta = 0 THEN Ok(b)
    ELSE LET pat == <<tag, 0, typ>>
             pos == BytesIndex(b, pat)
         IN IF pos < 0 \/ pos + 7 > Len(b) THEN Fail
            ELSE IF \E i \in Occurrences(b, pat) : i > pos THEN Fail
            ELSE LET w == writeU32FromInt(ClampAdd(readU32At(b, pos + 3, Len(b)), delta)) IN
                 IF ~w.ok THEN Fail ELSE Ok(Overwrite(b, pos + 3, w.bytes))

\* setMetaLinkIDTail: [ok, bytes], bytes the meta slice afterwards
setMetaLinkIDTail(meta, crossLinksField) ==
    LET pat == <<25, 0, 32>>
        pos == BytesIndex(meta, pat)
        n == Len(crossLinksField)
    IN IF pos < 0 \/ pos + 6 > Len(meta) THEN Fail
       ELSE IF \E i \in Occurrences(meta, pat) : i > pos THEN Fail
       ELSE IF n < 11 THEN Fail
       ELSE IF readU32At(crossLinksField, 7, n) <= 0 THEN Ok(meta)
       ELSE IF n < 11 + 7 + 6 THEN Fail
       ELSE IF ~MatchAt(crossLinksField, 11, <<6, 0, 13>>) THEN Fail
       ELSE IF readU32At(crossLinksField, 14, n) < 6 \/ n < 18 + 6 THEN Fail
       ELSE Ok(Overwrite(meta, pos + 3, Slice(crossLinksField, 21, 24)))

\* adjustOffsetsByTag: [ok, bytes], bytes the buffer afterwards
adjustOffsetsByTag(data, tag, typ, delta) ==
    IF delta = 0 THEN Ok(data)
    ELSE LET pattern == <<tag, 0, typ>>
             occ == {i \in Occurrences(data, pattern) : i + 7 <= Len(data)}
         IN IF Cardinality(occ) # 1 THEN Fail
            ELSE LET pos == BytesIndex(data, pattern) IN
                 IF pos < 0 \/ pos + 7 > Len(data) THEN Fail
                 ELSE LET w == writeU32FromInt(
                                  ClampAdd(readU32At(data, pos + 3, Len(data)), delta))
                      IN IF ~w.ok THEN Fail ELSE Ok(Overwrite(data, pos + 3, w.bytes))

\* sortReplsDesc: the exchange sort of the source, by start, descending
RECURSIVE sortInner(_, _, _)
sortInner(r, i, j) ==
    IF j > Len(r) THEN r
    ELSE sortInner(IF r[j].start > r[i].start THEN Swap(r, i, j) ELSE r, i, j + 1)

RECURSIVE sortOuter(_, _)
sortOuter(r, i) == IF i > Len(r) THEN r ELSE sortOuter(sortInner(r, i, i + 1), i + 1)

\* the replacements left in the order they were built
sortReplsKeepOrder(repls) == repls

sortReplsDesc(repls) == sortOuter(repls, 1)

\* one replacement spliced into a fresh buffer: out[:start] + blob + out[end:]
splice(out, r) == Slice(out, 0, r.start) \o r.blob \o Slice(out, r.end, Len(out))

\* the replacement loop of PatchRoadTool: [ok, out]
RECURSIVE applyRepls(_, _)
applyRepls(out, repls) ==
    IF repls = <<>> THEN [ok |-> TRUE, out |-> out]
    ELSE LET r == Head(repls) IN
         IF r.start < 0 \/ r.end < r.start \/ r.end > Len(out)
         THEN [ok |-> FALSE, out |-> <<>>]
         ELSE applyRepls(splice(out, r), Tail(repls))

RECURSIVE SumDelta(_)
SumDelta(repls) ==
    IF repls = <<>> THEN 0
    ELSE Len(Head(repls).blob) - (Head(repls).end - Head(repls).start) + SumDelta(Tail(repls))

\* metaBytes := data[metaStart:metaEnd]: a view of the caller's buffer
metaBufferAliased(data, metaStart, metaEnd) ==
    [bytes |-> Slice(data, metaStart, metaEnd), shared |-> TRUE]

\* metaBytes := append([]byte(nil), data[metaStart:metaEnd]...): a private copy.
\* shared tells whether writes into the slice land in the caller's buffer.
metaBuffer(data, metaStart, metaEnd) ==
    [bytes |-> Slice(data, metaStart, metaEnd), shared |-> FALSE]

Repl(kind, start, end, blob) == [kind |-> kind, start |-> start, end |-> end, blob |-> blob]

\* the result of a failed PatchRoadTool call: no bytes
PatchError(err, inbuf, types, crs, validatedAt) ==
    [ok |-> FALSE, err |-> err, out |-> <<>>, inbuf |-> inbuf,
     delta88 |-> 0, delta89 |-> 0, delta8A |-> 0, repls |-> <<>>,
     cfgTypes |-> types, cfgCrossroads |-> crs, validatedAt |-> validatedAt]

\* The road stage once the 0x88 field was built (write.go 65-85)
patchRoadsField(block, seq, built, field) ==
    IF ~built.ok \/ ~field.ok
    THEN [ok |-> FALSE, err |-> "road type encoding failed",
          types |-> seq.types, existingIDs |-> seq.used, delta88 |-> 0, repls |-> <<>>]
    ELSE [ok |-> TRUE, err |-> "", types |-> seq.types, existingIDs |-> seq.used,
          delta88 |-> (readU32At(field.bytes, 3, Len(field.bytes)) - 4)
                      - (block.ListLen - 4),
          repls |-> <<Repl("roads", block.Start, block.Start + 7 + block.ListLen,
                           field.bytes)>>]

\* the road stage with the short declared length in its list field
patchRoadsBuiltShortLen(block, seq, built) ==
    patchRoadsField(block, seq, built, fieldListLenWithoutCount(136, built.entries))

patchRoadsBuilt(block, seq, built) ==
    patchRoadsField(block, seq, built, fieldList(136, built.entries))

\* The road stage once the identifiers are settled (write.go 63-65)
patchRoadsSeq(block, cfg, seq) ==
    patchRoadsBuilt(block, seq,
                    buildRoadTypesEntries([cfg EXCEPT !.Types = seq.types], seq.used))

\* The road stage of PatchRoadTool (write.go 50-86):
\* [ok, err, types, existingIDs, delta88, repls]
patchRoads(block, cfg, existingIDs) ==
    IF Len(cfg.Types) = 0
    THEN [ok |-> FALSE, err |-> "scope=roads requires road_types in config",
          types |-> cfg.Types, existingIDs |-> existingIDs, delta88 |-> 0, repls |-> <<>>]
    ELSE patchRoadsSeq(block, cfg,
            applySequentialRoadTypeIDs(
                IF Len(cfg.Types) = Len(block.Types)
                THEN inheritExistingRoadTypeIDs(cfg.Types, block.Types)
                ELSE cfg.Types,
                block.Types, existingIDs))

\* The tail of the crossroad stage (write.go 134-174), after the two fields
\* were built: crs the (reordered) crossroad list, built the two fields.
patchCrossroadFields(data, crDefs, crLinks, replsSoFar, crs, writeLinks, built) ==
    LET delta89 == (readU32At(built.defField, 3, Len(built.defField)) - 4)
                   - (crDefs.ListLen - 4)
        delta8A == (readU32At(built.linkField, 3, Len(built.linkField)) - 4)
                   - (crLinks.ListLen - 4)
        metaStart == crDefs.Start + crDefs.FieldLen
        metaEnd == crLinks.Start
        bad(err, inbuf) ==
            [ok |-> FALSE, err |-> err, crs |-> crs, delta89 |-> 0, delta8A |-> 0,
             repls |-> replsSoFar, inbuf |-> inbuf]
        defRepl == Repl("defs", crDefs.Start, crDefs.Start + crDefs.FieldLen, built.defField)
        withTail(meta0, meta1, in1, meta2) ==
            IF ~meta1.ok THEN bad("u32 field not found for adjustment", data)
            ELSE IF ~meta2.ok THEN bad("crossroads meta 0x19/0x20 field", in1)
            ELSE [ok |-> TRUE, err |-> "", crs |-> crs, delta89 |-> delta89,
                  delta8A |-> delta8A,
                  repls |-> replsSoFar \o
                            <<defRepl,
                              Repl("meta", metaStart, metaEnd, meta2.bytes),
                              Repl("links", crLinks.Start, crLinks.Start + crLinks.FieldLen,
                                   built.linkField)>>,
                  inbuf |-> IF meta0.shared /\ meta2.ok
                            THEN Overwrite(data, metaStart, meta2.bytes)
                            ELSE in1]
        withAdjusted(meta0, meta1, in1) ==
            withTail(meta0, meta1, in1, setMetaLinkIDTail(meta1.bytes, built.linkField))
        withMeta1(meta0, meta1) ==
            withAdjusted(meta0, meta1,
                         IF meta0.shared /\ meta1.ok
                         THEN Overwrite(data, metaStart, meta1.bytes)
                         ELSE data)
        withMeta0(meta0) ==
            withMeta1(meta0, adjustU32FieldInSlice(meta0.bytes, 63, 13, delta8A))
    IN
    IF ~built.ok THEN bad("crossroad encoding failed", data)
    ELSE IF metaStart < 0 \/ metaEnd < metaStart \/ metaEnd > Len(data)
    THEN bad("invalid crossroads meta range", data)
    ELSE IF ~writeLinks
    THEN [ok |-> TRUE, err |-> "", crs |-> crs, delta89 |-> delta89, delta8A |-> 0,
          repls |-> Append(replsSoFar, defRepl), inbuf |-> data]
    ELSE withMeta0(metaBuffer(data, metaStart, metaEnd))

\* The crossroad stage once the list order is settled (write.go 120-132)
patchCrossroadsOrdered(data, existingIDs, crDefs, crLinks, replsSoFar, cfg2, writeLinks) ==
    patchCrossroadFields(data, crDefs, crLinks, replsSoFar, cfg2.CrossroadTypes, writeLinks,
                         buildCrossroadFields(cfg2, existingIDs, writeLinks))

\* The crossroad stage after validation (write.go 105-127)
patchCrossroadsValid(data, existingIDs, crDefs, crLinks, replsSoFar, cfg1, verr, crs) ==
    IF verr # ""
    THEN [ok |-> FALSE, err |-> verr, crs |-> cfg1.CrossroadTypes, delta89 |-> 0,
          delta8A |-> 0, repls |-> replsSoFar, inbuf |-> data]
    ELSE patchCrossroadsOrdered(data, existingIDs, crDefs, crLinks, replsSoFar,
                                [cfg1 EXCEPT !.CrossroadTypes = crs],
                                \E i \in 1..Len(crs) : crs[i].TV4PLink # <<>>)

\* The crossroad stage with the road types to validate against (write.go 101-113)
patchCrossroadsTypes(data, existingIDs, crDefs, crLinks, replsSoFar, cfg1) ==
    patchCrossroadsValid(data, existingIDs, crDefs, crLinks, replsSoFar, cfg1,
                         ValidateCrossroads(cfg1.CrossroadTypes, cfg1.Types),
                         IF shouldReorderCrossroads(cfg1)
                         THEN reorderCrossroadsByRoadTypeIndex(cfg1)
                         ELSE cfg1.CrossroadTypes)

\* The crossroad stage of PatchRoadTool (write.go 94-175), entered with the
\* replacements built so far: [ok, err, crs, delta89, delta8A, repls, inbuf]
patchCrossroads(data, block, cfg, existingIDs, crDefs, crLinks, replsSoFar) ==
    IF ~crDefs.Found \/ ~crLinks.Found
    THEN [ok |-> FALSE, err |-> "crossroad lists not found near Road Tool block",
          crs |-> cfg.CrossroadTypes, delta89 |-> 0, delta8A |-> 0,
          repls |-> replsSoFar, inbuf |-> data]
    ELSE patchCrossroadsTypes(data, existingIDs, crDefs, crLinks, replsSoFar,
                              [cfg EXCEPT !.Types = IF Len(cfg.Types) = 0 THEN block.Types
                                                    ELSE cfg.Types])

\* the nil test dropped: a nil list is treated like an empty one
touchesCrossroadsNilToo(cfg, scope) == IncludesCrossroads(scope)

\* scope.IncludesCrossroads() && cfg.CrossroadTypes != nil (write.go 94)
touchesCrossroads(cfg, scope) == IncludesCrossroads(scope) /\ ~cfg.CrossroadsNil

\* The replacement loop and the offset adjustment of PatchRoadTool
\* (write.go 177-209), entered with the sorted replacements.
patchApply(data, roads, cross, validatedAt, repls) ==
    LET d18 == roads.delta88 + cross.delta89 + cross.delta8A
        d3E == roads.delta88 + cross.delta89
        \* out aliases data only while no replacement was applied
        aliased == repls = <<>>
        withAdj2(adj1, adj2) ==
            IF ~adj1.ok \/ ~adj2.ok
            THEN PatchError("offset tag count mismatch",
                            IF aliased /\ adj2.ok THEN adj2.bytes
                            ELSE IF aliased /\ adj1.ok THEN adj1.bytes
                            ELSE cross.inbuf,
                            roads.types, cross.crs, validatedAt)
            ELSE [ok |-> TRUE, err |-> "", out |-> adj2.bytes,
                  inbuf |-> IF aliased THEN adj2.bytes ELSE cross.inbuf,
                  delta88 |-> roads.delta88, delta89 |-> cross.delta89,
                  delta8A |-> cross.delta8A, repls |-> repls,
                  cfgTypes |-> roads.types, cfgCrossroads |-> cross.crs,
                  validatedAt |-> validatedAt]
        withAdj1(totalDelta, adj1) ==
            withAdj2(adj1, IF totalDelta # 0
                           THEN adjustOffsetsByTag(adj1.bytes, 62, 13, d3E)
                           ELSE adj1)
        withOut(applied, totalDelta) ==
            IF ~applied.ok
            THEN PatchError("invalid replacement range", cross.inbuf, roads.types,
                            cross.crs, validatedAt)
            ELSE withAdj1(totalDelta, IF totalDelta # 0
                                      THEN adjustOffsetsByTag(applied.out, 24, 13, d18)
                                      ELSE Ok(applied.out))
    IN withOut(applyRepls(data, repls), SumDelta(repls))

\* PatchRoadTool from the sort of the replacements on (write.go 177-209)
patchSorted(data, roads, cross, validatedAt) ==
    IF ~cross.ok
    THEN PatchError(cross.err, cross.inbuf, roads.types, cross.crs, validatedAt)
    ELSE patchApply(data, roads, cross, validatedAt, sortReplsDesc(cross.repls))

\* PatchRoadTool once the crossroad lists were looked up (write.go 92-175)
patchWithLists(data, cfg, block, roads, crDefs, crLinks, touch) ==
    patchSorted(data, roads,
                IF touch
                THEN patchCrossroads(data, block, [cfg EXCEPT !.Types = roads.types],
                                     roads.existingIDs, crDefs, crLinks, roads.repls)
                ELSE [ok |-> TRUE, err |-> "", crs |-> cfg.CrossroadTypes,
                      delta89 |-> 0, delta8A |-> 0, repls |-> roads.repls, inbuf |-> data],
                IF touch /\ crDefs.Found /\ crLinks.Found THEN Len(roads.repls) ELSE -1)

\* PatchRoadTool after the road stage (write.go 88-90)
patchAfterRoads(data, cfg, scope, block, roads) ==
    IF ~roads.ok
    THEN PatchError(roads.err, data, roads.types, cfg.CrossroadTypes, -1)
    ELSE patchWithLists(data, cfg, block, roads,
                        findTaggedListAfter(data, block.Start + 7 + block.ListLen, 137,
                                            validateCrossroadDefs),
                        findTaggedListAfter(data, block.Start + 7 + block.ListLen, 138,
                                            validateCrossroadLinks),
                        touchesCrossroads(cfg, scope))

\* PatchRoadTool after the road-type block was decoded (write.go 38-86)
patchParsed(data, cfg, scope, block, existingIDs) ==
    IF ~block.ok
    THEN PatchError("road types list not found", data, cfg.Types, cfg.CrossroadTypes, -1)
    ELSE patchAfterRoads(data, cfg, scope, block,
                         IF IncludesRoads(scope) THEN patchRoads(block, cfg, existingIDs)
                         ELSE [ok |-> TRUE, err |-> "", types |-> cfg.Types,
                               existingIDs |-> existingIDs, delta88 |-> 0,
                               repls |-> <<>>])

\* PatchRoadTool(data, cfg, scope).  Besides the returned bytes (out) and error
\* the record carries what the call leaves behind or computes on the way:
\* inbuf, the caller's buffer afterwards; cfgTypes and cfgCrossroads, the
\* caller's slices afterwards (the call writes identifiers and swaps elements
\* in place); the three deltas; the replacements in the order applied; and
\* validatedAt, the number of replacements already built when
\* ValidateCrossroads ran (-1 when it did not run).
PatchRoadTool(data, cfg, scope) ==
    patchParsed(data, cfg, scope, ParseRoadTypes(data), collectEntryIDs(data))

(***************************************************************************)
(* The patch command's preparation of the configuration (patch.go).        *)
(***************************************************************************)
\* explicit[key] of selectDefaultCrossroads: the last crossroad whose trimmed
\* default has the key, 0 when there is none
explicitIndex(all, key) ==
    IF \E i \in 1..Len(all) :
           TrimSpace(all[i].Default) # <<>> /\ ToLower(TrimSpace(all[i].Default)) = key
    THEN SetMax({i \in 1..Len(all) :
                    /\ TrimSpace(all[i].Default) # <<>>
                    /\ ToLower(TrimSpace(all[i].Default)) = key})
    ELSE 0

\* the best-match search of selectDefaultCrossroads: 0 when no score is >= 0
bestMatch(all, key) ==
    LET sc(j) == matchScore(all[j], key)
    IN BestIndex({j \in 1..Len(all) : matchScore(all[j], key) >= 0}, sc)

\* the copy appended to out: marked with want when it carries no default
markDefault(cr, want) ==
    IF TrimSpace(cr.Default) = <<>> THEN [cr EXCEPT !.Default = want] ELSE cr

\* the road-type loop of selectDefaultCrossroads (i is 1-based)
RECURSIVE selectLoop(_, _, _, _)
selectLoop(all, roadTypes, i, out) ==
    IF i > Len(roadTypes) THEN out
    ELSE
    LET want == TrimSpace(roadTypes[i].Name)
        key == ToLower(want)
        picked(idx) ==
            IF idx = 0 THEN selectLoop(all, roadTypes, i + 1, out)
            ELSE selectLoop(all, roadTypes, i + 1, Append(out, markDefault(all[idx], want)))
    IN
    IF want = <<>> THEN selectLoop(all, roadTypes, i + 1, out)
    ELSE IF explicitIndex(all, key) # 0 THEN picked(explicitIndex(all, key))
    ELSE picked(bestMatch(all, key))

\* selectDefaultCrossroads (patch.go 79-172)
selectDefaultCrossroads(all, roadTypes) ==
    IF Len(all) = 0 \/ Len(roadTypes) = 0 THEN all
    ELSE IF selectLoop(all, roadTypes, 1, <<>>) = <<>> THEN all
    ELSE selectLoop(all, roadTypes, 1, <<>>)

\* cfg.Types taken from the file for a config without road types
\* (patch.go 38-44)
withFileTypes(cfg, block, scope) ==
    IF IncludesCrossroads(scope) /\ Len(cfg.Types) = 0
    THEN [cfg EXCEPT !.Types = block.Types]
    ELSE cfg

\* the default-only selection (patch.go 48-50)
withDefaultsOnly(cfg, scope, allCrossroads) ==
    IF IncludesCrossroads(scope) /\ ~cfg.CrossroadsNil /\ ~allCrossroads
    THEN [cfg EXCEPT !.CrossroadTypes = selectDefaultCrossroads(cfg.CrossroadTypes, cfg.Types)]
    ELSE cfg

\* the configuration patchCmd.Execute hands to PatchRoadTool (patch.go 34-50)
\* when run without --append; block is ParseRoadTypes(data)
patchConfig(cfg, block, scope, allCrossroads) ==
    withDefaultsOnly(withFileTypes(cfg, block, scope), scope, allCrossroads)

(***************************************************************************)
(* Portable projection (portable.go) read back as a config: identifiers,   *)
(* entry types and raw sub-trees are gone; an empty crossroad list is      *)
(* omitted from the document and reads back as nil.                        *)
(***************************************************************************)
PortableParts(parts) ==
    [i \in 1..Len(parts) |->
        [Name |-> parts[i].Name, Path |-> parts[i].Path, ID |-> 0, Type |-> 0]]

ToPortableConfig(cfg) ==
    [Types |-> [i \in 1..Len(cfg.Types) |->
                   [ZeroRoadType EXCEPT
                       !.Name = cfg.Types[i].Name,
                       !.KeyColor = cfg.Types[i].KeyColor,
                       !.NormalColor = cfg.Types[i].NormalColor,
                       !.KeyCustom = cfg.Types[i].KeyCustom,
                       !.NormalCustom = cfg.Types[i].NormalCustom,
                       !.StraightParts = PortableParts(cfg.Types[i].StraightParts),
                       !.CornerParts = PortableParts(cfg.Types[i].CornerParts),
                       !.TerminatorPart = PortableParts(cfg.Types[i].TerminatorPart)]],
     CrossroadTypes |-> [i \in 1..Len(cfg.CrossroadTypes) |->
                           [cfg.CrossroadTypes[i] EXCEPT !.TV4PDef = <<>>,
                                                         !.TV4PLink = <<>>]],
     CrossroadsNil |-> Len(cfg.CrossroadTypes) = 0]

(***************************************************************************)
(* Host files.  A project file is laid out as Terrain Builder writes it:   *)
(* a header, the object field 18 00 0D <u32>, the object field             *)
(* 3E 00 0D <u32>, the road-type list 88 00 0C, and, when the project has  *)
(* crossroads, the definition list 89 00 0C, the metadata region           *)
(* (3F 00 0D <u32>, 19 00 20 <3 identifier bytes>) and the link list       *)
(* 8A 00 0C, then unrelated project data.  Road-type names of a project    *)
(* are unique case-insensitively (spec section 3).                         *)
(***************************************************************************)
Sa == <<97>>

Sb == <<98>>

Sc == <<99>>

PathP == <<112>>

PathQ == <<113>>

ModelM == <<109>>

ModelN == <<110>>

NameA1 == <<97, 49>>

NameB1 == <<98, 49>>

KrTab == KrT \o Sa \o Underscore \o Sb      \* kr_t_a_b

KrTba == KrT \o Sb \o Underscore \o Sa      \* kr_t_b_a

KrTaa == KrT \o Sa \o Underscore \o Sa      \* kr_t_a_a

KrXba == KrX \o Sb \o Underscore \o Sa      \* kr_x_b_a

Part(name, path, id, typ) == [Name |-> name, Path |-> path, ID |-> id, Type |-> typ]

HostRoadA ==
    [ZeroRoadType EXCEPT !.Name = Sa, !.ID = 12, !.Type = 18,
                         !.StraightParts = <<Part(NameA1, PathP, 100, 19)>>]

HostRoadB ==
    [ZeroRoadType EXCEPT !.Name = Sb, !.ID = 84, !.Type = 18,
                         !.StraightParts = <<Part(NameB1, PathQ, 104, 19)>>,
                         !.NormalCustom = TRUE,
                         !.NormalColor = [R |-> 1, G |-> 2, B |-> 3, A |-> 255]]

\* a road type whose two straight parts use the same model file
HostRoadTwin ==
    [ZeroRoadType EXCEPT !.Name = Sa, !.ID = 12, !.Type = 18,
                         !.StraightParts = <<Part(NameA1, PathP, 100, 19),
                                             Part(NameB1, PathP, 104, 19)>>]

\* the bytes Terrain Builder holds for road types in the tool's own field order
CanonicalRoadEntries(types) == buildRoadTypesLoop(types, [used |-> {}, next |-> 1]).entries

\* a road type as Terrain Builder may also store it: the straight part's flag
\* byte (0x7D) set
FlaggedRoadEntry ==
    rawEntryToBytes(
        [Type |-> 18, ID |-> 12,
         Fields |-> <<RawField(51, 11, hexEncodeToString(Sa)),
                      [Tag |-> 120, Type |-> 12, Raw |-> <<>>,
                       List |-> <<[Type |-> 19, ID |-> 100,
                                   Fields |-> <<RawField(51, 11, hexEncodeToString(NameA1)),
                                                RawField(124, 11, hexEncodeToString(PathP)),
                                                RawField(125, 9, Hex01),
                                                RawField(126, 20, HexZero8)>>]>>]>>],
        [used |-> {}, next |-> 1]).bytes

\* a crossroad definition and a link entry as found in a project file
HostDef(name, model, id) ==
    [Type |-> 23, ID |-> id,
     Fields |-> <<RawField(51, 11, hexEncodeToString(name)),
                  RawField(124, 11, hexEncodeToString(model)),
                  RawField(113, 9, Hex00),
                  RawField(115, 8, hexEncodeToString(<<0, 0, 255, 0>>))>>]

HostLink(model, id) ==
    [Type |-> 26, ID |-> id, Fields |-> <<RawField(145, 11, hexEncodeToString(model))>>]

RawBytes(list) == rawEntriesToBytes(list, [used |-> {}, next |-> 1]).entries

\* the metadata region between the two crossroad lists
HostMeta(linkBytes, tail) ==
    <<63, 0, 13>> \o U32Bytes(Len(linkBytes) + 9) \o <<25, 0, 32>> \o tail \o <<0>>

HostHeader == <<84, 86, 52, 80>>

HostTrailer == <<170, 187, 204>>

\* HostFile(road entries, cross): cross is <<>> for a project without
\* crossroads, else <<[defs, links, tail]>> with raw entry trees
HostFile(roadEntries, cross) ==
    LET f88 == fieldList(136, roadEntries).bytes
        f89 == IF cross = <<>> THEN <<>> ELSE fieldList(137, RawBytes(cross[1].defs)).bytes
        f8A == IF cross = <<>> THEN <<>> ELSE fieldList(138, RawBytes(cross[1].links)).bytes
        meta == IF cross = <<>> THEN <<>> ELSE HostMeta(f8A, cross[1].tail)
        v3E == Len(f88) + Len(f89) + 7
        v18 == v3E + Len(meta) + Len(f8A) + 14
    IN HostHeader \o <<24, 0, 13>> \o U32Bytes(v18) \o <<0>>
       \o <<62, 0, 13>> \o U32Bytes(v3E) \o f88 \o f89 \o meta \o f8A \o HostTrailer

TailOf(id) == SubSeq(U32Bytes(id), 2, 4)

HostPlain == HostFile(CanonicalRoadEntries(<<HostRoadA, HostRoadB>>), <<>>)

HostTwin == HostFile(CanonicalRoadEntries(<<HostRoadTwin>>), <<>>)

HostFlagged == HostFile(<<FlaggedRoadEntry>>, <<>>)

HostCross ==
    HostFile(CanonicalRoadEntries(<<HostRoadA, HostRoadB>>),
             <<[defs |-> <<HostDef(KrTab, ModelM, 1000), HostDef(KrTba, ModelN, 1376)>>,
                links |-> <<>>, tail |-> <<0, 0, 0>>]>>)

HostCrossAA ==
    HostFile(CanonicalRoadEntries(<<HostRoadA, HostRoadB>>),
             <<[defs |-> <<HostDef(KrTab, ModelM, 1000), HostDef(KrTaa, ModelN, 1376)>>,
                links |-> <<>>, tail |-> <<0, 0, 0>>]>>)

HostLinked ==
    HostFile(CanonicalRoadEntries(<<HostRoadA, HostRoadB>>),
             <<[defs |-> <<HostDef(KrTab, ModelM, 1000), HostDef(KrTba, ModelN, 1376)>>,
                links |-> <<HostLink(ModelM, 66051)>>, tail |-> TailOf(66051)]>>)

HostTwoLinks ==
    HostFile(CanonicalRoadEntries(<<HostRoadA, HostRoadB>>),
             <<[defs |-> <<HostDef(KrTab, ModelM, 1000), HostDef(KrTba, ModelN, 1376)>>,
                links |-> <<HostLink(ModelM, 66051),
                            HostLink(ModelN \o ModelN \o ModelN, 66427)>>,
                tail |-> TailOf(66051)]>>)

\* two road types whose names differ in case only
HostRoadUpperA ==
    [ZeroRoadType EXCEPT !.Name = <<65>>, !.ID = 84, !.Type = 18,
                         !.StraightParts = <<Part(NameB1, PathQ, 104, 19)>>]

HostCaseTwins ==
    HostFile(CanonicalRoadEntries(<<HostRoadA, HostRoadUpperA>>),
             <<[defs |-> <<HostDef(KrTaa, ModelM, 1000), HostDef(KrTaa, ModelN, 1376)>>,
                links |-> <<>>, tail |-> <<0, 0, 0>>]>>)

\* a file without the 3E 00 0D field, and one that holds no road-type list
HostNoSig3E ==
    LET f88 == fieldList(136, CanonicalRoadEntries(<<HostRoadA>>)).bytes IN
    HostHeader \o <<24, 0, 13>> \o U32Bytes(Len(f88) + 21) \o f88 \o HostTrailer

HostGarbage == HostHeader \o HostTrailer

\* a file in which the bytes 3E 00 0D occur a second time, after the lists
HostTwoSig3E == HostTwoLinks \o <<62, 0, 13, 0, 0, 0, 0>>

HostFiles ==
    {HostPlain, HostTwin, HostFlagged, HostCross, HostCrossAA, HostLinked, HostTwoLinks,
     HostCaseTwins, HostNoSig3E, HostGarbage, HostTwoSig3E}

(***************************************************************************)
(* Generator (generate.go, roadparts).  The road models found on disk are  *)
(* reduced to what the configuration depends on: the set of road-type      *)
(* names and the set of crossroad model names.                             *)
(***************************************************************************)
NoCrossroadName == [ok |-> FALSE, AB |-> <<>>, C |-> <<>>, D |-> <<>>, T |-> FALSE]

\* the test for an empty branch component dropped from the 4-way form
ParseCrossroadBaseNoEmptyTest(base) ==
    IF HasPrefix(base, KrT) THEN
        LET parts == Split(SubSeq(base, 6, Len(base)), 95) IN
        IF Len(parts) # 2 \/ parts[1] = <<>> \/ parts[2] = <<>> THEN NoCrossroadName
        ELSE [ok |-> TRUE, AB |-> parts[1], C |-> parts[2], D |-> <<>>, T |-> TRUE]
    ELSE IF HasPrefix(base, KrX) THEN
        LET parts == Split(SubSeq(base, 6, Len(base)), 95) IN
        IF Len(parts) < 2 \/ parts[1] = <<>> THEN NoCrossroadName
        ELSE LET d == IF Len(parts) >= 3
                      THEN Join(SubSeq(parts, 3, Len(parts)), Underscore)
                      ELSE parts[2]
             IN [ok |-> TRUE, AB |-> parts[1], C |-> parts[2],
                 D |-> IF d = <<>> THEN parts[2] ELSE d, T |-> FALSE]
    ELSE NoCrossroadName

ParseCrossroadBase(base) ==
    IF HasPrefix(base, KrT) THEN
        LET parts == Split(SubSeq(base, 6, Len(base)), 95) IN
        IF Len(parts) # 2 \/ parts[1] = <<>> \/ parts[2] = <<>> THEN NoCrossroadName
        ELSE [ok |-> TRUE, AB |-> parts[1], C |-> parts[2], D |-> <<>>, T |-> TRUE]
    ELSE IF HasPrefix(base, KrX) THEN
        LET parts == Split(SubSeq(base, 6, Len(base)), 95) IN
        IF Len(parts) < 2 \/ parts[1] = <<>> \/ parts[2] = <<>> THEN NoCrossroadName
        ELSE LET d == IF Len(parts) >= 3
                      THEN Join(SubSeq(parts, 3, Len(parts)), Underscore)
                      ELSE parts[2]
             IN [ok |-> TRUE, AB |-> parts[1], C |-> parts[2],
                 D |-> IF d = <<>> THEN parts[2] ELSE d, T |-> FALSE]
    ELSE NoCrossroadName

\* isDigits (files.go): only ASCII digits, and at least one
isDigits(s) == s # <<>> /\ \A i \in 1..Len(s) : s[i] >= 48 /\ s[i] <= 57

Konec == <<107, 111, 110, 101, 99>>

CrosswalkSuffix == <<95, 99, 114, 111, 115, 115, 119, 97, 108, 107>>

CrossroadTypeName == <<99, 114, 111, 115, 115, 114, 111, 97, 100>>

NoParsed == [ok |-> FALSE, TypeName |-> <<>>, Name |-> <<>>, Kind |-> "Unknown"]

\* ParseBase after the suffixes were stripped (files.go 152-184)
parseStripped(orig, base, isCrosswalk, isTerminator, idx) ==
    LET typeName == SubSeq(base, 1, idx)
        rest == SubSeq(base, idx + 2, Len(base))
        fields == Fields(rest)
        as(kind) == [ok |-> TRUE, TypeName |-> typeName, Name |-> orig, Kind |-> kind]
    IN
    IF idx <= 0 \/ idx = Len(base) - 1 THEN NoParsed
    ELSE IF typeName = <<>> \/ rest = <<>> THEN NoParsed
    ELSE IF isTerminator
    THEN (IF ~isDigits(rest) THEN NoParsed ELSE as("Terminator"))
    ELSE IF Len(fields) = 2 /\ isDigits(fields[1]) /\ isDigits(fields[2]) THEN as("Corner")
    ELSE IF Len(fields) = 1 /\ isDigits(fields[1])
    THEN (IF isCrosswalk THEN as("Crosswalk") ELSE as("Straight"))
    ELSE as("Unknown")

\* the konec suffix recognised but left on the name
parseKonecKept(orig, base, isCrosswalk) ==
    parseStripped(orig, base, isCrosswalk, HasSuffix(base, Konec), LastIndex(base, 95))

\* ParseBase once the _crosswalk suffix was handled (files.go 146-152)
parseNoCrosswalk(orig, base, isCrosswalk) ==
    parseStripped(orig, TrimSuffix(base, Konec), isCrosswalk, HasSuffix(base, Konec),
                  LastIndex(TrimSuffix(base, Konec), 95))

\* ParseBase (files.go 134-185)
ParseBase(base) ==
    IF HasPrefix(base, KrT) \/ HasPrefix(base, KrX)
    THEN [ok |-> TRUE, TypeName |-> CrossroadTypeName, Name |-> base, Kind |-> "Crossroad"]
    ELSE parseNoCrosswalk(base, TrimSuffix(base, CrosswalkSuffix),
                          HasSuffix(base, CrosswalkSuffix))

\* the score closure of assignCrossroadDefaults
assignScore(cr, want) ==
    LET w == ToLower(want) IN
    IF ToLower(cr.Connections.A) = w /\ ToLower(cr.Connections.B) = w
    THEN 100 + shapeScore(cr)
    ELSE IF ToLower(cr.Connections.A) = w \/ ToLower(cr.Connections.B) = w
    THEN 80 + shapeScore(cr)
    ELSE IF ToLower(cr.Connections.C) = w \/ ToLower(cr.Connections.D) = w
    THEN 60 + shapeScore(cr)
    ELSE -1

RECURSIVE assignLoop(_, _, _, _)
assignLoop(roadTypes, crossroads, seen, i) ==
    IF i > Len(roadTypes) THEN crossroads
    ELSE
    LET want == TrimSpace(roadTypes[i].Name)
        key == ToLower(want)
        cands == {j \in 1..Len(crossroads) : TrimSpace(crossroads[j].Default) = <<>>}
        sc(j) == assignScore(crossroads[j], want)
        best == BestIndex(cands, sc)
    IN
    IF want = <<>> \/ key \in seen \/ best = 0
    THEN assignLoop(roadTypes, crossroads, seen, i + 1)
    ELSE IF sc(best) < 0
    THEN assignLoop(roadTypes, crossroads, seen, i + 1)
    ELSE assignLoop(roadTypes, [crossroads EXCEPT ![best].Default = want],
                    seen \cup {key}, i + 1)

\* assignCrossroadDefaults: the crossroad list afterwards
assignCrossroadDefaults(roadTypes, crossroads) ==
    assignLoop(roadTypes, crossroads,
               {ToLower(TrimSpace(crossroads[j].Default)) :
                    j \in {k \in 1..Len(crossroads) : TrimSpace(crossroads[k].Default) # <<>>}},
               1)

\* sort.Slice by Name over the values of a map keyed by name
RECURSIVE SortedByName(_)
SortedByName(set) ==
    IF set = {} THEN <<>>
    ELSE LET m == CHOOSE x \in set : \A y \in set : y = x \/ StrLess(x.Name, y.Name)
         IN <<m>> \o SortedByName(set \ {m})

\* roadparts.Palette hashes the name into a colour; the hash is reduced to
\* a function of the name's length and first byte here
Palette(name) ==
    LET h == Len(name) + 7 * (IF name = <<>> THEN 0 ELSE name[1]) IN
    [R |-> 60 + (h % 160), G |-> 60 + ((h \div 2) % 160), B |-> 60 + ((h \div 3) % 160),
     A |-> 255]

clamp255(v) == IF v < 0 THEN 0 ELSE IF v > 255 THEN 255 ELSE v

RECURSIVE SumChannel(_, _)
SumChannel(colors, ch) ==
    IF colors = <<>> THEN 0 ELSE colors[1][ch] + SumChannel(Tail(colors), ch)

MixColors(colors) ==
    LET n == Len(colors) IN
    IF n = 0 THEN [R |-> 0, G |-> 0, B |-> 0, A |-> 255]
    ELSE [R |-> clamp255((SumChannel(colors, "R") + n \div 2) \div n),
          G |-> clamp255((SumChannel(colors, "G") + n \div 2) \div n),
          B |-> clamp255((SumChannel(colors, "B") + n \div 2) \div n),
          A |-> 255]

\* DarkenColor(c, 0.75)
DarkenColor(c) ==
    [R |-> clamp255((c.R * 3) \div 4), G |-> clamp255((c.G * 3) \div 4),
     B |-> clamp255((c.B * 3) \div 4), A |-> 255]

crossroadConnectionColors(c, known) ==
    LET add(name) == IF TrimSpace(name) # <<>> /\ TrimSpace(name) \in known
                     THEN <<Palette(TrimSpace(name))>> ELSE <<>>
    IN add(c.A) \o add(c.B) \o add(c.C) \o add(c.D)

Magenta == [R |-> 255, G |-> 0, B |-> 255, A |-> 255]

\* generateConfig for road models of the types roadNames (one straight part
\* each) and the crossroad models crossNames
generateConfig(roadNames, crossNames) ==
    LET types == {[ZeroRoadType EXCEPT
                      !.Name = n, !.Type = 18,
                      !.NormalColor = Palette(n), !.KeyColor = DarkenColor(Palette(n)),
                      !.KeyCustom = TRUE, !.NormalCustom = TRUE,
                      !.StraightParts = <<Part(n \o <<49>>, PathP, 0, 19)>>] : n \in roadNames}
        list == SortedByName(types)
        mk(name) ==
            LET cn == ParseCrossroadBase(name)
                conn == [A |-> cn.AB, B |-> cn.AB, C |-> cn.C,
                         D |-> IF cn.T THEN <<>> ELSE cn.D]
                colors == crossroadConnectionColors(conn, roadNames)
            IN [ZeroCrossroadType EXCEPT
                   !.Name = name, !.Model = ModelM \o name, !.ColorCustom = TRUE,
                   !.Connections = conn,
                   !.Color = IF colors = <<>> THEN Magenta
                             ELSE DarkenColor(MixColors(colors))]
        crossList == SortedByName({mk(n) : n \in {x \in crossNames : ParseCrossroadBase(x).ok}})
    IN [Types |-> list,
        CrossroadTypes |-> assignCrossroadDefaults(list, crossList),
        CrossroadsNil |-> crossList = <<>>]

(***************************************************************************)
(* Configuration documents a user may hand to the patch command.           *)
(***************************************************************************)
NamedType(name, parts) ==
    [ZeroRoadType EXCEPT !.Name = name, !.StraightParts = parts]

Synth(name, a, b, c, d, def) ==
    [ZeroCrossroadType EXCEPT
        !.Name = name, !.Model = ModelM,
        !.Connections = [A |-> a, B |-> b, C |-> c, D |-> d], !.Default = def]

PortableAB ==
    <<NamedType(Sa, <<Part(NameA1, PathP, 0, 0)>>), NamedType(Sb, <<Part(NameB1, PathQ, 0, 0)>>)>>

\* road types edited by hand: a gains a part, b is replaced by c
CfgNewRoads ==
    [Types |-> <<NamedType(Sa, <<Part(NameA1, PathP, 0, 0), Part(NameB1, PathP, 0, 0)>>),
                 NamedType(Sc, <<>>)>>,
     CrossroadTypes |-> <<>>, CrossroadsNil |-> TRUE]

CfgShort ==
    [Types |-> <<NamedType(Sb, <<>>)>>, CrossroadTypes |-> <<>>, CrossroadsNil |-> TRUE]

CfgErase ==
    [Types |-> <<NamedType(Sa, <<Part(NameA1, PathP, 0, 0)>>)>>,
     CrossroadTypes |-> <<>>, CrossroadsNil |-> FALSE]

\* parts filed under a list other than the one their type tag names
CfgMixedParts ==
    [Types |-> <<[ZeroRoadType EXCEPT
                     !.Name = Sa,
                     !.StraightParts = <<Part(NameA1, PathP, 0, 20)>>,
                     !.CornerParts = <<Part(NameB1, PathQ, 0, 19), Part(NameA1, PathQ, 0, 0)>>,
                     !.TerminatorPart = <<Part(NameB1, PathP, 0, 19)>>]>>,
     CrossroadTypes |-> <<>>, CrossroadsNil |-> TRUE]

CfgNoTypes == [Types |-> <<>>, CrossroadTypes |-> <<>>, CrossroadsNil |-> TRUE]

CfgBadConn ==
    [Types |-> PortableAB,
     CrossroadTypes |-> <<Synth(KrTab, Sa, Sa, Sc, <<>>, <<>>)>>, CrossroadsNil |-> FALSE]

CfgBadDefault ==
    [Types |-> PortableAB,
     CrossroadTypes |-> <<Synth(KrTaa, Sa, Sa, Sa, <<>>, Sb)>>, CrossroadsNil |-> FALSE]

CfgUnknownDefault ==
    [Types |-> PortableAB,
     CrossroadTypes |-> <<Synth(KrTaa, Sa, Sa, Sa, <<>>, Sc)>>, CrossroadsNil |-> FALSE]

CfgDupDefault ==
    [Types |-> PortableAB,
     CrossroadTypes |-> <<Synth(KrTab, Sa, Sa, Sb, <<>>, Sa),
                          Synth(KrXba, Sb, Sb, Sa, Sa, <<65>>)>>, CrossroadsNil |-> FALSE]

\* a T crossroad whose unused side D holds a blank
CfgSpaced ==
    [Types |-> PortableAB,
     CrossroadTypes |-> <<Synth(KrTab, Sa, Sa, Sb, <<32>>, Sa)>>, CrossroadsNil |-> FALSE]

CfgDupIDs ==
    [Types |-> <<[NamedType(Sa, <<>>) EXCEPT !.ID = 12], [NamedType(Sb, <<>>) EXCEPT !.ID = 12]>>,
     CrossroadTypes |-> <<>>, CrossroadsNil |-> TRUE]

\* a road type with a part left blank before a described one
CfgBlankPart ==
    [Types |-> <<NamedType(Sa, <<Part(<<>>, <<>>, 0, 0), Part(NameA1, PathP, 0, 0)>>)>>,
     CrossroadTypes |-> <<>>, CrossroadsNil |-> TRUE]

\* a T crossroad that names the road type a in upper case
CfgUpperConn ==
    [Types |-> PortableAB,
     CrossroadTypes |-> <<Synth(KrTab, <<65>>, <<65>>, Sb, <<>>, <<>>)>>, CrossroadsNil |-> FALSE]

ConfigFiles ==
    {CfgNewRoads, CfgShort, CfgErase, CfgNoTypes, CfgBadConn, CfgBadDefault,
     CfgUnknownDefault, CfgDupDefault, CfgSpaced, CfgDupIDs, CfgMixedParts, CfgBlankPart,
     CfgUpperConn}

\* a crossroad a user may append to a configuration: a definition copied
\* from another project with its raw entry
ExtraRaw ==
    [ZeroCrossroadType EXCEPT
        !.Name = <<107, 114, 120>>,
        !.TV4PDef = <<[Type |-> 23, ID |-> 2000,
                       Fields |-> <<RawField(51, 11, hexEncodeToString(<<107, 114, 120>>))>>]>>]

\* the road-model folders the generate command is run on: the road-type
\* names and the crossroad model names found in each
GenFolders ==
    {[roads |-> {Sa, Sb}, cross |-> {KrTab, KrXba}],
     [roads |-> {Sa, <<65>>}, cross |-> {KrTaa, KrTab}],
     [roads |-> {Sa, Sb, Sc}, cross |-> {KrTaa, KrT \o Sa}],
     [roads |-> {Sb}, cross |-> {}]}

Scopes == {"all", "roads", "crossroads"}

MaxCrossroads == 3

(***************************************************************************)
(* State: the project file on disk (which is also the buffer handed to     *)
(* the patcher), the configuration in memory (<<>> when none is loaded),   *)
(* the command that produced it (origin), the arguments and the result of  *)
(* the last PatchRoadTool call, and                                        *)
(* whether the patch command has written its output, which ends the run.   *)
(* call holds the last application of one of the package's functions on    *)
(* its own: <<>> or <<[fn, arg, ret]>>.                                    *)
(***************************************************************************)
VARIABLES data, cfg, origin, given, res, written, call

vars == <<data, cfg, origin, given, res, written, call>>

Init ==
    /\ data \in HostFiles
    /\ cfg = <<>>
    /\ origin = "none"
    /\ given = <<>>
    /\ res = <<>>
    /\ written = FALSE
    /\ call = <<>>

NewConfig(c, from) ==
    /\ cfg' = <<c>>
    /\ origin' = from
    /\ given' = <<>>
    /\ res' = <<>>
    /\ UNCHANGED <<data, written, call>>

\* extract command: decode the configuration from the project file
Extract ==
    /\ cfg = <<>>
    /\ ~written
    /\ \E p \in {ParseRoadToolConfig(data)} : p.ok /\ NewConfig(p.cfg, "extract")

\* extract --portable
Portable ==
    /\ cfg # <<>>
    /\ res = <<>>
    /\ ToPortableConfig(cfg[1]) # cfg[1]
    /\ NewConfig(ToPortableConfig(cfg[1]), "portable")

\* readConfig of a hand-written document
ReadConfig ==
    /\ cfg = <<>>
    /\ ~written
    /\ \E c \in ConfigFiles : NewConfig(c, "read")

\* generate command
Generate ==
    /\ cfg = <<>>
    /\ ~written
    /\ \E g \in GenFolders : NewConfig(generateConfig(g.roads, g.cross), "generate")

\* the user appends a crossroad to the loaded configuration
AppendCrossroad ==
    /\ cfg # <<>>
    /\ res = <<>>
    /\ ~cfg[1].CrossroadsNil
    /\ Len(cfg[1].CrossroadTypes) < MaxCrossroads
    /\ NewConfig([cfg[1] EXCEPT !.CrossroadTypes = Append(@, ExtraRaw)], "edited")

\* patch command without --append, up to the return of PatchRoadTool: the
\* configuration is prepared (the command ends there when it needs the
\* file's road types and they cannot be read) and handed to
\* PatchRoadTool(data, cfg, scope); the slices of cfg are shared with the
\* callee.  given keeps the arguments of the call and the configuration as
\* it was loaded.
Patch ==
    /\ cfg # <<>>
    /\ res = <<>>
    /\ \E scope \in Scopes, allCrossroads \in BOOLEAN :
          /\ ~(IncludesCrossroads(scope) /\ Len(cfg[1].Types) = 0 /\ ~ParseRoadTypes(data).ok)
          /\ \E c \in {patchConfig(cfg[1], ParseRoadTypes(data), scope, allCrossroads)} :
             \E r \in {PatchRoadTool(data, c, scope)} :
             /\ given' = <<[data |-> data, cfg |-> c, scope |-> scope,
                            loaded |-> cfg[1], allCrossroads |-> allCrossroads]>>
             /\ res' = <<r>>
             /\ data' = r.inbuf
             /\ cfg' = <<[c EXCEPT !.Types = r.cfgTypes, !.CrossroadTypes = r.cfgCrossroads]>>
             /\ UNCHANGED <<origin, written, call>>

\* the patch command writes the output over the input file
WriteFile ==
    /\ res # <<>>
    /\ res[1].ok
    /\ data' = res[1].out
    /\ written' = TRUE
    /\ cfg' = <<>>
    /\ origin' = "none"
    /\ given' = <<>>
    /\ res' = <<>>
    /\ UNCHANGED call

Next ==
    \/ Extract
    \/ Portable
    \/ ReadConfig
    \/ Generate
    \/ AppendCrossroad
    \/ Patch
    \/ WriteFile

Spec == Init /\ [][Next]_vars

(***************************************************************************)
(* The file-name parsers on their own.  The generate command hands every   *)
(* model file's base name to ParseFile and every crossroad name to         *)
(* ParseCrossroadBase (generate.go 123-149); here the two functions are    *)
(* applied to every name of a bounded set.                                 *)
(***************************************************************************)
\* the pieces file names are put together from: letters, digits, a corner's
\* two numbers, an empty piece
NamePieces == {<<>>, <<97>>, <<98, 49>>, <<54>>, <<55, 32, 49>>}

NamePrefixes == {<<>>, KrT, KrX, <<107, 114, 95>>}

NameSuffixes == {<<>>, Konec, CrosswalkSuffix}

MaxNamePieces == 4

PieceLists == UNION {[1..n -> NamePieces] : n \in 1..MaxNamePieces}

BaseNames ==
    {pre \o Join(ps, Underscore) \o suf :
        pre \in NamePrefixes, ps \in PieceLists, suf \in NameSuffixes}

Idle ==
    /\ data = <<>>
    /\ cfg = <<>>
    /\ origin = "none"
    /\ given = <<>>
    /\ res = <<>>
    /\ written = FALSE

Apply(fn, arg, ret) ==
    /\ call' = <<[fn |-> fn, arg |-> arg, ret |-> ret]>>
    /\ UNCHANGED <<data, cfg, origin, given, res, written>>

NamesInit == Idle /\ call = <<>>

\* roadparts.ParseFile on a model file (generate.go 123)
CallParseBase ==
    /\ call = <<>>
    /\ \E base \in BaseNames : Apply("ParseBase", base, ParseBase(base))

\* roadparts.ParseCrossroadBase on a model name (generate.go 142)
CallParseCrossroadBase ==
    /\ call = <<>>
    /\ \E base \in BaseNames : Apply("ParseCrossroadBase", base, ParseCrossroadBase(base))

NamesNext ==
    \/ CallParseBase
    \/ CallParseCrossroadBase

NamesSpec == NamesInit /\ [][NamesNext]_vars

(***************************************************************************)
(* The entry codec on its own.  The decoder is handed whatever bytes the   *)
(* file holds (parseEntries from findTaggedListAfter and ParseRoadTypes,   *)
(* parseEntry from parseEntries), and a decoded crossroad entry comes back *)
(* through entryToRaw and rawEntryToBytes; here these functions are        *)
(* applied to every buffer of a bounded set of well-formed and malformed   *)
(* entry bodies and lists.                                                 *)
(***************************************************************************)
\* 91 00 0B 01 00 'p': the string field the link validator asks for
PathField == <<145, 0, 11, 1, 0, 112>>

\* an entry body with its header 06 00 0D and its length
Framed(body) == <<6, 0, 13>> \o U32Bytes(Len(body)) \o body

\* an entry of type 0x1B, identifier id, without fields
BareEntry(id) == <<6, 0, 13>> \o U32Bytes(6) \o U16Bytes(27) \o U32Bytes(id)

\* a list field 01 00 0C declaring count entries over the given payload
NestedList(count, payload) ==
    <<1, 0, 12>> \o U32Bytes(4 + Len(payload)) \o U32Bytes(count) \o payload

FieldPieces ==
    {PathField,
     <<113, 0, 9, 1>>,
     <<100, 0, 11, 0, 0>>,
     NestedList(0, <<>>),
     NestedList(1, BareEntry(9)),
     NestedList(1, BareEntry(0)),
     NestedList(2, BareEntry(9)),
     NestedList(1, BareEntry(9) \o BareEntry(8)),
     NestedList(1, BareEntry(9) \o <<0>>),
     <<1, 0, 7>>}

Trailers == {<<>>, <<0>>, <<9, 0>>}

CodecTypeIDs == {0, 26}

CodecIDs == {0, 5}

MaxFields == 2

FieldLists == UNION {[1..n -> FieldPieces] : n \in 0..MaxFields}

EntryBodies ==
    {U16Bytes(typ) \o U32Bytes(id) \o Concat(fs) \o tr :
        typ \in CodecTypeIDs, id \in CodecIDs, fs \in FieldLists, tr \in Trailers}

\* a link entry (type 0x1A, identifier 5) as the file holds it
LinkBody == U16Bytes(26) \o U32Bytes(5) \o PathField

\* the link entry, the link entry with one byte left in its body, and the
\* link entry whose declared body length is one more than its body
EntryPieces ==
    {<<6, 0, 13>> \o U32Bytes(Len(LinkBody)) \o LinkBody,
     <<6, 0, 13>> \o U32Bytes(Len(LinkBody) + 1) \o LinkBody \o <<0>>,
     <<6, 0, 13>> \o U32Bytes(Len(LinkBody) + 1) \o LinkBody}

MaxEntries == 2

EntryLists == UNION {[1..n -> EntryPieces] : n \in 0..MaxEntries}

ListPayloads == {Concat(es) \o tr : es \in EntryLists, tr \in Trailers}

ListCounts == 0..(MaxEntries + 1)

\* the link list field 8A 00 0C over a payload, declaring count entries
LinkListField(count, payload) ==
    <<138, 0, 12>> \o U32Bytes(4 + Len(payload)) \o U32Bytes(count) \o payload

\* entryToRaw followed by rawEntryToBytes on the decoded body, with the
\* allocator of a file that holds this entry only
replayDecoded(body, dec) ==
    IF ~dec.ok THEN [decoded |-> FALSE, ok |-> FALSE, bytes |-> <<>>]
    ELSE LET replayed(r) == [decoded |-> TRUE, ok |-> r.ok, bytes |-> r.bytes]
         IN replayed(rawEntryToBytes(entryToRaw(dec.entry),
                        newIDAllocator([Types |-> <<>>],
                            collectEntryIDs(<<6, 0, 13>> \o U32Bytes(Len(body)) \o body))))

\* a road-type entry (type 0x16) named a with an empty straight list
RoadBody(id) ==
    U16Bytes(22) \o U32Bytes(id) \o <<51, 0, 11, 1, 0, 97>>
                \o <<120, 0, 12, 4, 0, 0, 0, 0, 0, 0, 0>>

\* the field 88 00 0C over a payload, declaring count entries
RoadListField(count, payload) ==
    <<136, 0, 12>> \o U32Bytes(4 + Len(payload)) \o U32Bytes(count) \o payload

\* fields that start with 88 00 0C: a road-type list of one entry, the same
\* with a stray byte in the list, the same declaring two entries or 2^31
\* entries, a list of one link entry, a payload that is no entry, and a
\* list that reaches beyond the buffer
RoadListCandidates ==
    {RoadListField(1, Framed(RoadBody(84))),
     RoadListField(1, Framed(RoadBody(84)) \o <<0>>),
     RoadListField(2, Framed(RoadBody(12))),
     <<136, 0, 12>> \o U32Bytes(4 + Len(Framed(RoadBody(12)))) \o <<0, 0, 0, 128>>
                    \o Framed(RoadBody(12)),
     RoadListField(1, Framed(LinkBody)),
     RoadListField(1, <<1, 2, 3, 4, 5, 6, 7, 8>>),
     <<136, 0, 12, 200, 0, 0, 0, 1, 0, 0, 0>> \o Framed(RoadBody(12))}

FilePieces == RoadListCandidates \cup {<<>>, <<84, 86>>}

MaxFilePieces == 2

RoadFiles ==
    {Concat(ps) \o tr : ps \in UNION {[1..n -> FilePieces] : n \in 1..MaxFilePieces},
                        tr \in {<<>>, <<0>>}}

\* a road-type entry named by one byte, with an empty straight list
NamedRoadBody(id, letter) ==
    U16Bytes(22) \o U32Bytes(id) \o <<51, 0, 11, 1, 0, letter>>
                \o <<120, 0, 12, 4, 0, 0, 0, 0, 0, 0, 0>>

\* the stored index of a connection slot: -2 no field, -1 ff ff ff ff,
\* else the index
IndexChoices == {-2, -1, 0, 1, 5}

\* the field tag 00 05 <u32> the encoder writes for a connection index
\* (write.go 1110-1113)
IndexField(tag, idx) == IF idx = -2 THEN <<>> ELSE <<tag, 0, 5>> \o U32Bytes(idx)

DefNames == {KrT \o <<97, 95, 98>>, <<120>>}   \* "kr_t_a_b", "x"

\* a crossroad definition entry (type 0x17) with its name, its model path
\* "m.p3d" and its four connection indices
DefBody(name, idx) ==
    U16Bytes(23) \o U32Bytes(1000)
        \o <<51, 0, 11>> \o U16Bytes(Len(name)) \o name
        \o <<124, 0, 11, 5, 0, 109, 46, 112, 51, 100>>
        \o IndexField(132, idx[1]) \o IndexField(133, idx[2])
        \o IndexField(134, idx[3]) \o IndexField(135, idx[4])

\* a file with the road types a and b and one crossroad definition
DefFile(name, idx) ==
    <<84, 86>>
    \o RoadListField(2, Framed(NamedRoadBody(84, 97)) \o Framed(NamedRoadBody(156, 98)))
    \o <<137, 0, 12>> \o U32Bytes(4 + Len(Framed(DefBody(name, idx)))) \o U32Bytes(1)
    \o Framed(DefBody(name, idx))

CodecInit == Idle /\ call = <<>>

\* ParseRoadToolConfig on a file with one crossroad definition (extract.go)
CallParseRoadToolConfig ==
    /\ call = <<>>
    /\ \E name \in DefNames, idx \in [1..4 -> IndexChoices] :
          Apply("ParseRoadToolConfig", [name |-> name, idx |-> idx],
                ParseRoadToolConfig(DefFile(name, idx)))

\* ParseRoadTypes on the bytes of a file (extract.go, patch.go)
CallParseRoadTypes ==
    /\ call = <<>>
    /\ \E file \in RoadFiles : Apply("ParseRoadTypes", file, ParseRoadTypes(file))

\* parseEntry on the body of an entry (parse.go, in parseEntries)
CallParseEntry ==
    /\ call = <<>>
    /\ \E body \in EntryBodies : Apply("parseEntry", body, parseEntry(body, 0, Len(body)))

\* parseEntries on the payload of a list declaring count entries
CallParseEntries ==
    /\ call = <<>>
    /\ \E payload \in ListPayloads, count \in ListCounts :
          Apply("parseEntries", [data |-> payload, count |-> count],
                parseEntries(payload, 0, Len(payload), count, Len(payload)))

\* findTaggedListAfter for the link list of a file (crossroads.go)
CallFindTaggedListAfter ==
    /\ call = <<>>
    /\ \E payload \in ListPayloads, count \in ListCounts :
          Apply("findTaggedListAfter", LinkListField(count, payload),
                findTaggedListAfter(LinkListField(count, payload), 0, 138,
                                    validateCrossroadLinks))

\* a decoded entry kept as a raw sub-tree and written back (write.go)
CallRawEntryToBytes ==
    /\ call = <<>>
    /\ \E body \in EntryBodies :
          Apply("rawEntryToBytes", body, replayDecoded(body, parseEntry(body, 0, Len(body))))

CodecNext ==
    \/ CallParseEntry
    \/ CallParseEntries
    \/ CallFindTaggedListAfter
    \/ CallRawEntryToBytes
    \/ CallParseRoadTypes
    \/ CallParseRoadToolConfig

CodecSpec == CodecInit /\ [][CodecNext]_vars

(***************************************************************************)
(* The stages of a patch on their own: the default-only selection of the   *)
(* patch command and the reordering of PatchRoadTool, applied to every     *)
(* configuration of a bounded set.                                         *)
(***************************************************************************)
Crossroad(name, default, a, b, c, d) == Synth(name, a, b, c, d, default)

KrXab == KrX \o Sa \o Underscore \o Sb      \* kr_x_a_b

\* crossroads over the road types a and b: with and without a default,
\* three-way, four-way and unprefixed, one naming no road type at all
CrossroadPool ==
    {Crossroad(KrTab, <<>>, <<97>>, <<97>>, <<98>>, <<>>),
     Crossroad(KrTab, <<97>>, <<97>>, <<97>>, <<98>>, <<>>),
     Crossroad(KrTba, <<97>>, <<98>>, <<98>>, <<97>>, <<>>),
     Crossroad(KrTba, <<66>>, <<98>>, <<98>>, <<97>>, <<>>),
     Crossroad(KrXba, <<>>, <<98>>, <<98>>, <<97>>, <<97>>),
     Crossroad(KrXab, <<97>>, <<97>>, <<97>>, <<98>>, <<98>>),
     Crossroad(<<120>>, <<>>, <<97>>, <<98>>, <<>>, <<>>),
     Crossroad(<<121>>, <<>>, <<>>, <<>>, <<>>, <<>>)}

MaxListed == 3

CrossroadLists == UNION {[1..n -> CrossroadPool] : n \in 1..MaxListed}

TypeLists ==
    {<<NamedType(Sa, <<>>)>>,
     <<NamedType(Sa, <<>>), NamedType(Sb, <<>>)>>,
     <<NamedType(Sb, <<>>), NamedType(Sa, <<>>)>>,
     <<NamedType(<<>>, <<>>), NamedType(Sa, <<>>), NamedType(Sb, <<>>)>>}

\* identifiers of the road types of a file and of a configuration: 0 is
\* unassigned, 84 = 0x48 + 0x0C, 100 has the remainder 28
FileTypeIDs == {0, 84, 100}

ConfigTypeIDs == {0, 100, 300}

\* identifiers of other entries of the file, in the way of the series
OtherIDs == {156, 172, 228}

MaxTypes == 3

TypesWithIDs(ids) == [i \in 1..Len(ids) |-> [NamedType(<<96 + i>>, <<>>) EXCEPT !.ID = ids[i]]]

\* identifiers found in a file
FileIDs == {12, 84, 379, 380, 756, 1000}

\* a crossroad with a raw definition entry, or a generated one
WithRawDef(raw) ==
    [ZeroCrossroadType EXCEPT
        !.TV4PDef = IF raw THEN <<[Type |-> 23, ID |-> 1000, Fields |-> <<>>]>> ELSE <<>>]

StagesInit == Idle /\ call = <<>>

\* allocateCrossroadDefIDs(cfg.CrossroadTypes, alloc) on the fresh allocator
\* of buildCrossroadFields (write.go 967-978)
CallAllocateCrossroadDefIDs ==
    /\ call = <<>>
    /\ \E n \in 1..MaxListed : \E raw \in [1..n -> BOOLEAN], used \in SUBSET FileIDs :
          Apply("allocateCrossroadDefIDs",
                [raw |-> raw, alloc |-> newIDAllocator([Types |-> <<>>], used)],
                allocateCrossroadDefIDs([i \in 1..n |-> WithRawDef(raw[i])],
                                        newIDAllocator([Types |-> <<>>], used)))

\* applySequentialRoadTypeIDs(&cfg, block.Types, existingIDs) in
\* buildRoadTypesEntries (write.go 546)
CallApplySequentialRoadTypeIDs ==
    /\ call = <<>>
    /\ \E n \in 1..MaxTypes, m \in 1..(MaxTypes - 1) :
       \E ids \in [1..n -> ConfigTypeIDs], existing \in [1..m -> FileTypeIDs],
          other \in SUBSET OtherIDs :
          Apply("applySequentialRoadTypeIDs",
                [ids |-> ids, existing |-> existing,
                 used |-> other \cup ({existing[i] : i \in 1..m} \ {0})],
                applySequentialRoadTypeIDs(TypesWithIDs(ids), TypesWithIDs(existing),
                    other \cup ({existing[i] : i \in 1..m} \ {0})))

\* reorderCrossroadsByRoadTypeIndex(&cfg) in PatchRoadTool (write.go 120-123)
CallReorder ==
    /\ call = <<>>
    /\ \E types \in TypeLists, crs \in CrossroadLists :
          Apply("reorderCrossroadsByRoadTypeIndex", [Types |-> types, CrossroadTypes |-> crs],
                reorderCrossroadsByRoadTypeIndex([Types |-> types, CrossroadTypes |-> crs]))

\* selectDefaultCrossroads(cfg.CrossroadTypes, cfg.Types) in the patch
\* command (patch.go 48-50)
CallSelectDefaultCrossroads ==
    /\ call = <<>>
    /\ \E types \in TypeLists, crs \in CrossroadLists :
          Apply("selectDefaultCrossroads", [Types |-> types, CrossroadTypes |-> crs],
                selectDefaultCrossroads(crs, types))

StagesNext ==
    \/ CallReorder
    \/ CallSelectDefaultCrossroads
    \/ CallApplySequentialRoadTypeIDs
    \/ CallAllocateCrossroadDefIDs

StagesSpec == StagesInit /\ [][StagesNext]_vars

(***************************************************************************)
(* Vocabulary of the properties.                                           *)
(***************************************************************************)
Called == res # <<>>

Succeeded == res # <<>> /\ res[1].ok

\* the configuration handed to the last call is the unedited decode of the
\* file handed to it
GivenIsDecode ==
    /\ given # <<>>
    /\ \E p \in {ParseRoadToolConfig(given[1].data)} : p.ok /\ p.cfg = given[1].cfg

\* the road-type list of a file is in the encoder's own field order, so the
\* exception the round-trip guarantee makes for non-canonical source
\* encodings does not apply to it
CanonicalRoads(file) ==
    \E p \in {ParseRoadTypes(file)} :
        /\ p.ok
        /\ Slice(file, p.Start, p.Start + 7 + p.ListLen)
             = fieldList(136, CanonicalRoadEntries(p.Types)).bytes

LowerNames(types) == [i \in 1..Len(types) |-> ToLower(types[i].Name)]

\* the data-model invariant on road-type names
UniqueNames(types) ==
    \A i, j \in 1..Len(types) : i # j => ToLower(types[i].Name) # ToLower(types[j].Name)

(***************************************************************************)
(* C1 Round-trip identity.  Whenever PatchRoadTool is called with scope    *)
(* all on a host file and the configuration ParseRoadToolConfig decoded    *)
(* from that same file, it succeeds and returns the file's bytes           *)
(* unchanged.  The statement is taken for host files whose road-type list  *)
(* is canonically encoded and whose road-type names are unique, which is   *)
(* the case the guarantee admits no exception for.                         *)
(***************************************************************************)
C1_RoundTripIdentity ==
    (/\ Called
     /\ given[1].scope = "all"
     /\ GivenIsDecode
     /\ CanonicalRoads(given[1].data)
     /\ UniqueNames(given[1].cfg.Types))
    => (res[1].ok /\ res[1].out = given[1].data)

\* the round trip of a canonical host file that does come back unchanged
C1_RoundTripWitness ==
    /\ Called
    /\ given[1].scope = "all"
    /\ GivenIsDecode
    /\ CanonicalRoads(given[1].data)
    /\ Len(given[1].cfg.CrossroadTypes) > 0
    /\ res[1].ok
    /\ res[1].out = given[1].data

(***************************************************************************)
(* Identifiers carried by a file, read structurally: an entry is           *)
(* 06 00 0D <u32 body length> <u16 type> <u32 id> ..., and the next entry  *)
(* of a list starts right after the body.                                  *)
(***************************************************************************)
RECURSIVE WalkEntryIDs(_, _, _)
WalkEntryIDs(bytes, pos, n) ==
    IF n = 0 \/ pos + 13 > Len(bytes) THEN <<>>
    ELSE <<readU32At(bytes, pos + 9, Len(bytes))>>
         \o WalkEntryIDs(bytes, pos + 7 + readU32At(bytes, pos + 3, Len(bytes)), n - 1)

\* the identifiers of the entries of a list field tag 00 0C <len> <count> ...
ListFieldIDs(field) ==
    IF Len(field) < 11 THEN <<>> ELSE WalkEntryIDs(field, 11, readU32At(field, 7, Len(field)))

PartIDSeq(parts) == [i \in 1..Len(parts) |-> parts[i].ID]

NoRepeat(ids) == \A i, j \in 1..Len(ids) : i # j => ids[i] # ids[j]

NoZero(ids) == \A i \in 1..Len(ids) : ids[i] # 0

\* the new bytes of the list a call replaced, else the bytes the host file
\* holds for it (<<>> when the file has no such list)
ReplBlob(kind) ==
    LET ks == {i \in 1..Len(res[1].repls) : res[1].repls[i].kind = kind} IN
    IF ks # {} THEN res[1].repls[CHOOSE i \in ks : TRUE].blob
    ELSE IF kind = "roads" THEN <<>>
    ELSE LET defs == findTaggedListAfter(given[1].data, 0, 137, validateCrossroadDefs)
             links == IF defs.Found
                      THEN findTaggedListAfter(given[1].data, defs.Start + defs.FieldLen,
                                               138, validateCrossroadLinks)
                      ELSE NotFoundList
         IN IF kind = "defs" /\ defs.Found
            THEN Slice(given[1].data, defs.Start, defs.Start + defs.FieldLen)
            ELSE IF kind = "links" /\ links.Found
            THEN Slice(given[1].data, links.Start, links.Start + links.FieldLen)
            ELSE <<>>

OutRoadTypes == ParseRoadTypes(res[1].out).Types

OutRoadTypeIDs == [i \in 1..Len(OutRoadTypes) |-> OutRoadTypes[i].ID]

OutStraightIDs == Concat([i \in 1..Len(OutRoadTypes) |-> PartIDSeq(OutRoadTypes[i].StraightParts)])

OutCornerIDs == Concat([i \in 1..Len(OutRoadTypes) |-> PartIDSeq(OutRoadTypes[i].CornerParts)])

OutTerminatorIDs == Concat([i \in 1..Len(OutRoadTypes) |-> PartIDSeq(OutRoadTypes[i].TerminatorPart)])

OutDefIDs == ListFieldIDs(ReplBlob("defs"))

OutLinkIDs == ListFieldIDs(ReplBlob("links"))

IDsUniqueInOutput ==
    /\ ParseRoadTypes(res[1].out).ok
    /\ \A ids \in {OutRoadTypeIDs, OutStraightIDs, OutCornerIDs, OutTerminatorIDs,
                   OutDefIDs, OutLinkIDs} : NoZero(ids) /\ NoRepeat(ids)

\* a configuration that carries no identifier and no raw entry of its own
NoExplicitIDs(c) ==
    /\ \A i \in 1..Len(c.Types) :
          /\ c.Types[i].ID = 0
          /\ \A ps \in {c.Types[i].StraightParts, c.Types[i].CornerParts,
                        c.Types[i].TerminatorPart} :
                \A k \in 1..Len(ps) : ps[k].ID = 0
    /\ \A i \in 1..Len(c.CrossroadTypes) :
          c.CrossroadTypes[i].TV4PDef = <<>> /\ c.CrossroadTypes[i].TV4PLink = <<>>

(***************************************************************************)
(* C2 Identifier uniqueness.  After a successful PatchRoadTool call every  *)
(* entry identifier of the output file is non-zero and no two entries of   *)
(* one kind (road type, straight, corner or terminator part, crossroad     *)
(* definition, crossroad link) carry the same identifier.  The statement   *)
(* is taken for configurations that name no identifier themselves, so      *)
(* that every identifier written is one the patcher chose or inherited.    *)
(***************************************************************************)
C2_IdentifierUniqueness ==
    (Succeeded /\ NoExplicitIDs(given[1].cfg)) => IDsUniqueInOutput

\* a successful patch that wrote inherited and fresh identifiers, all distinct
C2_UniqueIDsWitness ==
    /\ Succeeded
    /\ NoExplicitIDs(given[1].cfg)
    /\ given[1].scope = "all"
    /\ Len(given[1].cfg.Types) > 1
    /\ Len(given[1].cfg.CrossroadTypes) > 1
    /\ IDsUniqueInOutput

(***************************************************************************)
(* Payload changes of the last call, read off its replacements: the new    *)
(* length of a list field minus the length of the range it replaces.       *)
(***************************************************************************)
RECURSIVE DeltaOf(_, _)
DeltaOf(repls, kind) ==
    IF repls = <<>> THEN 0
    ELSE (IF Head(repls).kind = kind
          THEN Len(Head(repls).blob) - (Head(repls).end - Head(repls).start)
          ELSE 0) + DeltaOf(Tail(repls), kind)

D88 == DeltaOf(res[1].repls, "roads")

D89 == DeltaOf(res[1].repls, "defs")

D8A == DeltaOf(res[1].repls, "links")

Sig18 == <<24, 0, 13>>

Sig3E == <<62, 0, 13>>

\* the u32 that follows the only occurrence of a signature
OffsetValue(file, sig) == readU32At(file, BytesIndex(file, sig) + 3, Len(file))

SignaturesUnique(file) ==
    Cardinality(Occurrences(file, Sig18)) = 1 /\ Cardinality(Occurrences(file, Sig3E)) = 1

(***************************************************************************)
(* C3 Offset consistency.  After a successful PatchRoadTool call that      *)
(* changes the three list payloads by d88, d89 and d8A, the u32 after the  *)
(* signature 18 00 0D equals its value in the input plus d88+d89+d8A and   *)
(* the u32 after the signature 3E 00 0D equals its value in the input plus *)
(* d88+d89, for every combination of signs, cancelling ones included.      *)
(***************************************************************************)
C3_OffsetConsistency ==
    (Succeeded /\ SignaturesUnique(res[1].out)) =>
        /\ OffsetValue(res[1].out, Sig18)
             = OffsetValue(given[1].data, Sig18) + D88 + D89 + D8A
        /\ OffsetValue(res[1].out, Sig3E)
             = OffsetValue(given[1].data, Sig3E) + D88 + D89

\* both offsets moved by their own non-zero amounts
C3_OffsetsMovedWitness ==
    /\ Succeeded
    /\ D88 # 0 /\ D89 # 0
    /\ D88 + D89 + D8A # 0
    /\ OffsetValue(res[1].out, Sig18) = OffsetValue(given[1].data, Sig18) + D88 + D89 + D8A
    /\ OffsetValue(res[1].out, Sig3E) = OffsetValue(given[1].data, Sig3E) + D88 + D89

\* the same statement for the calls whose three deltas do not cancel
C3_OffsetsWhenNotCancelling ==
    (Succeeded /\ SignaturesUnique(res[1].out) /\ D88 + D89 + D8A # 0) =>
        /\ OffsetValue(res[1].out, Sig18)
             = OffsetValue(given[1].data, Sig18) + D88 + D89 + D8A
        /\ OffsetValue(res[1].out, Sig3E)
             = OffsetValue(given[1].data, Sig3E) + D88 + D89

(***************************************************************************)
(* Where the lists of a file lie, found the way PatchRoadTool finds them.  *)
(***************************************************************************)
RoadRange(file) ==
    \* [ok, start, end) of the road-type field, header included
    LET b == ParseRoadTypes(file) IN
    [ok |-> b.ok, start |-> b.Start, end |-> b.Start + 7 + b.ListLen]

CrossRange(file) ==
    \* [ok, start, metaStart, metaEnd, end): definition field, metadata, link field
    LET rr == RoadRange(file)
        defs == findTaggedListAfter(file, rr.end, 137, validateCrossroadDefs)
        links == findTaggedListAfter(file, rr.end, 138, validateCrossroadLinks)
    IN [ok |-> rr.ok /\ defs.Found /\ links.Found,
        start |-> defs.Start, metaStart |-> defs.Start + defs.FieldLen,
        metaEnd |-> links.Start, end |-> links.Start + links.FieldLen,
        defCount |-> defs.Count]

\* the bytes file[lo..hi) stand in out from offset at on
SameBytes(out, at, file, lo, hi) ==
    /\ 0 <= at
    /\ at + (hi - lo) <= Len(out)
    /\ Slice(out, at, at + (hi - lo)) = Slice(file, lo, hi)

(***************************************************************************)
(* C4 Scope isolation (roads).  A successful PatchRoadTool call with       *)
(* scope roads on a file that holds the crossroad lists returns a file in  *)
(* which the definition list 0x89, the metadata region after it and the    *)
(* link list 0x8A hold the very bytes of the input, moved only by the      *)
(* change in length of the road-type list before them.                     *)
(***************************************************************************)
C4_RoadsScopeKeepsCrossroads ==
    (Succeeded /\ given[1].scope = "roads") =>
        \E cr \in {CrossRange(given[1].data)} :
            cr.ok => SameBytes(res[1].out, cr.start + D88, given[1].data, cr.start, cr.end)

\* a roads-only patch that resized the road-type list of a file with
\* crossroads, under a configuration whose crossroads differ from the file's
C4_RoadsScopeWitness ==
    /\ Succeeded
    /\ given[1].scope = "roads"
    /\ CrossRange(given[1].data).ok
    /\ CrossRange(given[1].data).end > CrossRange(given[1].data).metaEnd + 11
    /\ D88 # 0
    /\ ~given[1].cfg.CrossroadsNil
    /\ ~GivenIsDecode

(***************************************************************************)
(* C5 Scope isolation (crossroads).  A successful PatchRoadTool call with  *)
(* scope crossroads returns a file whose road-type list, from its          *)
(* 88 00 0C header through its last entry, holds the very bytes of the     *)
(* input at the same place, whatever road types the configuration has.     *)
(***************************************************************************)
C5_CrossroadsScopeKeepsRoads ==
    (Succeeded /\ given[1].scope = "crossroads") =>
        \E rr \in {RoadRange(given[1].data)} :
            SameBytes(res[1].out, rr.start, given[1].data, rr.start, rr.end)

\* a crossroads-only patch that rewrote the crossroad lists under a
\* configuration whose road types differ from the file's
C5_CrossroadsScopeWitness ==
    /\ Succeeded
    /\ given[1].scope = "crossroads"
    /\ D89 # 0
    /\ Len(given[1].cfg.Types) > 0
    /\ \E p \in {ParseRoadTypes(given[1].data)} :
          LowerNames(p.Types) # LowerNames(given[1].cfg.Types)

(***************************************************************************)
(* C6 Failure atomicity.  A PatchRoadTool call that returns an error       *)
(* returns no bytes, and after every call, failed or not, the caller's     *)
(* input buffer holds what it held before the call.                        *)
(***************************************************************************)
C6_FailureAtomicity ==
    Called =>
        /\ (~res[1].ok => res[1].out = <<>>)
        /\ res[1].inbuf = given[1].data
        /\ data = given[1].data

\* a call that failed after a replacement had been built and applied
C6_LateFailureWitness ==
    /\ Called
    /\ ~res[1].ok
    /\ res[1].err = "offset tag count mismatch"
    /\ res[1].inbuf = given[1].data

\* a call that rewrote the metadata region and succeeded
C6_MetaRewrittenWitness ==
    /\ Succeeded
    /\ D8A # 0
    /\ res[1].inbuf = given[1].data

(***************************************************************************)
(* The input with a set of disjoint ranges substituted, written out left   *)
(* to right: the bytes before the first range, its new bytes, the bytes    *)
(* up to the next range, and so on.                                        *)
(***************************************************************************)
RECURSIVE Substituted(_, _, _)
Substituted(file, ranges, from) ==
    IF ranges = {} THEN Slice(file, from, Len(file))
    ELSE LET r == CHOOSE x \in ranges : \A y \in ranges : x.start <= y.start IN
         Slice(file, from, r.start) \o r.blob \o Substituted(file, ranges \ {r}, r.end)

\* a file with the two dependent offset values blanked
BlankAt(file, pos) ==
    IF pos < 0 \/ pos + 7 > Len(file) THEN file ELSE Overwrite(file, pos + 3, <<0, 0, 0, 0>>)

BlankAfter(file, sig) == BlankAt(file, BytesIndex(file, sig))

BlankOffsets(file) == BlankAfter(BlankAfter(file, Sig18), Sig3E)

ReplsDisjoint(repls) ==
    \A i, j \in 1..Len(repls) :
        i # j => (repls[i].end <= repls[j].start \/ repls[j].end <= repls[i].start)

ReplsDescending(repls) ==
    \A i, j \in 1..Len(repls) : i < j => repls[i].start > repls[j].start

(***************************************************************************)
(* C7 Every other byte preserved.  The output of a successful              *)
(* PatchRoadTool call is the input with each replaced range (road-type     *)
(* field, definition field, metadata region, link field) substituted by    *)
(* its new bytes; the ranges are pairwise disjoint and were applied in     *)
(* descending order of start; apart from the two 4-byte dependent offset   *)
(* values, every byte outside the ranges is in the output, unchanged and   *)
(* in the same order.                                                      *)
(***************************************************************************)
C7_OtherBytesPreserved ==
    Succeeded =>
        /\ ReplsDisjoint(res[1].repls)
        /\ ReplsDescending(res[1].repls)
        /\ \A i \in 1..Len(res[1].repls) :
              0 <= res[1].repls[i].start /\ res[1].repls[i].end <= Len(given[1].data)
        /\ BlankOffsets(res[1].out)
             = BlankOffsets(Substituted(given[1].data,
                                        {res[1].repls[i] : i \in 1..Len(res[1].repls)}, 0))

\* a patch that replaced all four ranges and changed the length of the file
C7_FourRangesWitness ==
    /\ Succeeded
    /\ Len(res[1].repls) = 4
    /\ D8A # 0
    /\ Len(res[1].out) # Len(given[1].data)

(***************************************************************************)
(* C8 Default uniqueness.  In the configuration that the generator         *)
(* returns (after assignCrossroadDefaults) and in the one that             *)
(* ParseRoadToolConfig returns (after its default derivation), no two      *)
(* crossroad types have defaults that name the same road type when         *)
(* compared case-insensitively.                                            *)
(***************************************************************************)
DefaultsUnique(crs) ==
    \A i, j \in 1..Len(crs) :
        (i # j /\ crs[i].Default # <<>>) => ToLower(crs[i].Default) # ToLower(crs[j].Default)

C8_UniqueForGeneratorAndUniqueNames ==
    /\ (origin = "generate" /\ res = <<>>) => DefaultsUnique(cfg[1].CrossroadTypes)
    /\ (origin = "extract" /\ res = <<>> /\ UniqueNames(cfg[1].Types))
          => DefaultsUnique(cfg[1].CrossroadTypes)

(***************************************************************************)
(* What makes a crossroad list invalid, stated over the whole list.        *)
(***************************************************************************)
LowerNameSet(types) == {ToLower(types[i].Name) : i \in 1..Len(types)}

LowerSides(cr) == {ToLower(Sides(cr)[k]) : k \in 1..4}

\* as the contract words it: names and defaults taken as written
InvalidAsWritten(crs, types) ==
    \/ \E i \in 1..Len(crs) : \E k \in 1..4 :
          Sides(crs[i])[k] # <<>> /\ ToLower(Sides(crs[i])[k]) \notin LowerNameSet(types)
    \/ \E i \in 1..Len(crs) :
          /\ crs[i].Default # <<>>
          /\ \/ ToLower(crs[i].Default) \notin LowerNameSet(types)
             \/ ToLower(crs[i].Default) \notin LowerSides(crs[i])
    \/ \E i, j \in 1..Len(crs) :
          i # j /\ crs[i].Default # <<>> /\ ToLower(crs[i].Default) = ToLower(crs[j].Default)

Blank(str) == TrimSpace(str) = <<>>

\* with surrounding white space dropped from connections and defaults before
\* they are looked up, and blank values counted as absent
InvalidTrimmed(crs, types) ==
    LET names == {ToLower(types[i].Name) : i \in {k \in 1..Len(types) : ~Blank(types[k].Name)}}
        key(str) == ToLower(TrimSpace(str))
    IN
    \/ \E i \in 1..Len(crs) : \E k \in 1..4 :
          ~Blank(Sides(crs[i])[k]) /\ key(Sides(crs[i])[k]) \notin names
    \/ \E i \in 1..Len(crs) :
          /\ ~Blank(crs[i].Default)
          /\ \/ key(crs[i].Default) \notin names
             \/ ToLower(crs[i].Default) \notin LowerSides(crs[i])
    \/ \E i, j \in 1..Len(crs) :
          /\ i # j
          /\ ~Blank(crs[i].Default)
          /\ ~Blank(crs[j].Default)
          /\ key(crs[i].Default) = key(crs[j].Default)

ValidationErrors ==
    {"unknown road type for connection", "default refers to unknown road type",
     "default not present in connections", "duplicate crossroad default"}

\* the road types PatchRoadTool validates against: the configuration's, or
\* the file's when the configuration has none
ValidatedTypes ==
    IF Len(given[1].cfg.Types) = 0 THEN ParseRoadTypes(given[1].data).Types
    ELSE given[1].cfg.Types

EmptyDefList == <<137, 0, 12, 4, 0, 0, 0, 0, 0, 0, 0>>

C10_NilVersusEmpty ==
    Succeeded =>
        \E cr \in {CrossRange(given[1].data)} :
            /\ (given[1].cfg.CrossroadsNil /\ cr.ok) =>
                  /\ SameBytes(res[1].out, cr.start + D88, given[1].data,
                               cr.start, cr.metaStart)
                  /\ SameBytes(res[1].out, cr.metaEnd + D88, given[1].data,
                               cr.metaEnd, cr.end)
            /\ (/\ ~given[1].cfg.CrossroadsNil
                /\ given[1].cfg.CrossroadTypes = <<>>
                /\ IncludesCrossroads(given[1].scope)) =>
                  /\ cr.ok
                  /\ SameBytes(res[1].out, cr.start + D88, EmptyDefList, 0, 11)
                  /\ SameBytes(res[1].out, cr.start + D88 + 11, given[1].data,
                               cr.metaStart, cr.metaEnd)

\* crossroads erased from a file that had definitions
C10_ErasedWitness ==
    /\ Succeeded
    /\ ~given[1].cfg.CrossroadsNil
    /\ given[1].cfg.CrossroadTypes = <<>>
    /\ given[1].scope = "crossroads"
    /\ CrossRange(given[1].data).defCount = 2
    /\ D89 < 0

\* a nil list under scope all on a file with definitions and links
C10_NilKeptWitness ==
    /\ Succeeded
    /\ given[1].cfg.CrossroadsNil
    /\ given[1].scope = "all"
    /\ CrossRange(given[1].data).ok
    /\ CrossRange(given[1].data).defCount = 2
    /\ D88 # 0

(***************************************************************************)
(* Vocabulary of the properties of the name parsers.                       *)
(***************************************************************************)
Applied(fn) == call # <<>> /\ call[1].fn = fn

\* a name component: not empty, no underscore
Component(s) == s # <<>> /\ \A k \in 1..Len(s) : s[k] # 95

\* the name read as <five-byte prefix> A _ C tail, A ending at position i and
\* C at position j (1-based, inclusive)
NameA(name, i) == SubSeq(name, 6, i)

NameC(name, i, j) == SubSeq(name, i + 2, j)

NameTail(name, j) == SubSeq(name, j + 1, Len(name))

SplitsAt(name, i, j) ==
    /\ i + 1 <= Len(name)
    /\ name[i + 1] = 95
    /\ Component(NameA(name, i))
    /\ Component(NameC(name, i, j))

\* kr_t_<A>_<C>
FormT(name, i) == HasPrefix(name, KrT) /\ SplitsAt(name, i, Len(name))

\* kr_x_<A>_<C> followed by nothing or by an underscore and any text
FormX(name, i, j) ==
    /\ HasPrefix(name, KrX)
    /\ SplitsAt(name, i, j)
    /\ (j = Len(name) \/ name[j + 1] = 95)

\* kr_x_<A>_<C> followed by nothing or by an underscore and a component
FormXStrict(name, i, j) ==
    /\ FormX(name, i, j)
    /\ (j = Len(name) \/ Component(SubSeq(name, j + 2, Len(name))))

(***************************************************************************)
(* C11 Crossroad name grammar, as stated.  ParseCrossroadBase accepts      *)
(* exactly the names kr_t_<A>_<C> and kr_x_<A>_<C>[_<D>] whose components   *)
(* are non-empty and hold no underscore, and yields AB = A, C = C and, for *)
(* the 4-way form, D equal to the explicit third component or to C when    *)
(* there is none.                                                          *)
(***************************************************************************)
C11_GrammarAsStated ==
    Applied("ParseCrossroadBase") =>
        \E name \in {call[1].arg} : \E r \in {call[1].ret} :
            /\ r.ok <=> \/ \E i \in 5..Len(name) : FormT(name, i)
                        \/ \E i, j \in 5..Len(name) : FormXStrict(name, i, j)
            /\ \A i, j \in 5..Len(name) :
                  (r.ok /\ FormXStrict(name, i, j)) =>
                      /\ r.AB = NameA(name, i)
                      /\ r.C = NameC(name, i, j)
                      /\ r.D = IF j = Len(name) THEN r.C
                               ELSE SubSeq(name, j + 2, Len(name))

(***************************************************************************)
(* C11 Crossroad name grammar, amended.  ParseCrossroadBase accepts        *)
(* exactly the names kr_t_<A>_<C> and the names kr_x_<A>_<C> followed by    *)
(* nothing or by an underscore and any text, A and C non-empty and free of *)
(* underscores.  It yields AB = A and C = C; the 3-way form has no D; the  *)
(* 4-way form has D equal to the whole text after the third underscore     *)
(* (underscores included) or, when that text is missing or empty, to C.    *)
(* Every name without the kr_t_ / kr_x_ prefix and every name whose A or C *)
(* is empty is rejected, and so is a 3-way name with a third component.    *)
(***************************************************************************)
C11_GrammarAmended ==
    Applied("ParseCrossroadBase") =>
        \E name \in {call[1].arg} : \E r \in {call[1].ret} :
            /\ r.ok <=> \/ \E i \in 5..Len(name) : FormT(name, i)
                        \/ \E i, j \in 5..Len(name) : FormX(name, i, j)
            /\ \A i \in 5..Len(name) :
                  FormT(name, i) =>
                      /\ r.T
                      /\ r.AB = NameA(name, i)
                      /\ r.C = NameC(name, i, Len(name))
                      /\ r.D = <<>>
            /\ \A i, j \in 5..Len(name) :
                  FormX(name, i, j) =>
                      /\ ~r.T
                      /\ r.AB = NameA(name, i)
                      /\ r.C = NameC(name, i, j)
                      /\ r.D = IF Len(NameTail(name, j)) > 1
                               THEN Tail(NameTail(name, j))
                               ELSE r.C
            /\ (~HasPrefix(name, KrT) /\ ~HasPrefix(name, KrX)) => ~r.ok

\* a 4-way name accepted with an explicit fourth road type
C11_ExplicitFourthWitness ==
    /\ Applied("ParseCrossroadBase")
    /\ call[1].ret.ok
    /\ ~call[1].ret.T
    /\ call[1].ret.D # call[1].ret.C
    /\ Component(call[1].ret.D)

(***************************************************************************)
(* Vocabulary of the part-name property.                                   *)
(***************************************************************************)
Digits(s) == s # <<>> /\ \A k \in 1..Len(s) : s[k] \in 48..57

IsCrossroadName(name) == HasPrefix(name, KrT) \/ HasPrefix(name, KrX)

\* the name with the _crosswalk suffix and then the konec suffix taken off
Stripped(name) == TrimSuffix(TrimSuffix(name, CrosswalkSuffix), Konec)

\* name = <type> _ <number text> <suffix>, the underscore at position i
TypeAt(name, i) == SubSeq(name, 1, i - 1)

NumberAt(name, i, suffix) == SubSeq(name, i + 1, Len(name) - Len(suffix))

PartForm(name, i, suffix) ==
    /\ i > 1
    /\ name[i] = 95
    /\ HasSuffix(name, suffix)
    /\ i <= Len(name) - Len(suffix)

\* <digits> <digits>
TwoNumbers(s) ==
    \E k \in 2..(Len(s) - 1) :
        s[k] = 32 /\ Digits(SubSeq(s, 1, k - 1)) /\ Digits(SubSeq(s, k + 1, Len(s)))

\* the kind the naming rules give a name whose last underscore before the
\* number is at position i: "" when the name has none of the four forms
KindByRule(name, i) ==
    IF PartForm(name, i, <<>>) /\ Digits(NumberAt(name, i, <<>>)) THEN "Straight"
    ELSE IF PartForm(name, i, <<>>) /\ TwoNumbers(NumberAt(name, i, <<>>)) THEN "Corner"
    ELSE IF PartForm(name, i, Konec) /\ Digits(NumberAt(name, i, Konec)) THEN "Terminator"
    ELSE IF PartForm(name, i, CrosswalkSuffix) /\ Digits(NumberAt(name, i, CrosswalkSuffix))
    THEN "Crosswalk"
    ELSE ""

Rejectable(name) ==
    \E s \in {Stripped(name)} :
        \/ \A k \in 1..Len(s) : s[k] # 95
        \/ {k \in 1..Len(s) : s[k] = 95} = {1}
        \/ (s # <<>> /\ s[Len(s)] = 95)

\* the four part forms and the rejections, for names that are no crossroads
PartRules(name, r) ==
    /\ \A i \in 1..Len(name) :
          KindByRule(name, i) # "" =>
              /\ r.ok
              /\ r.Kind = KindByRule(name, i)
              /\ r.TypeName = TypeAt(name, i)
              /\ r.Name = name
    /\ Rejectable(name) => ~r.ok

(***************************************************************************)
(* C12 Part file-name grammar, as stated.  ParseBase classifies            *)
(* <type>_<digits> as straight, <type>_<digits> <digits> as corner,        *)
(* <type>_<digits>konec as terminator, <type>_<digits>_crosswalk as        *)
(* crosswalk and any kr_t_ / kr_x_ name as crossroad; in all five cases it *)
(* returns the text before the last underscore as the type name and the    *)
(* unmodified base as the part name.  It rejects every name that, after    *)
(* stripping the suffixes, has no underscore, starts with its only         *)
(* underscore or ends with an underscore.                                  *)
(***************************************************************************)
C12_PartGrammarAsStated ==
    Applied("ParseBase") =>
        \E name \in {call[1].arg} : \E r \in {call[1].ret} :
            IF IsCrossroadName(name)
            THEN /\ r.ok
                 /\ r.Kind = "Crossroad"
                 /\ r.Name = name
                 /\ r.TypeName = SubSeq(name, 1, LastIndex(name, 95))
            ELSE PartRules(name, r)

(***************************************************************************)
(* C12 Part file-name grammar, amended.  A name with the kr_t_ or kr_x_    *)
(* prefix is always accepted as a crossroad, with the fixed type name      *)
(* "crossroad" and the unmodified base as the part name, even when it ends *)
(* with an underscore.  Every other name is classified by the four part    *)
(* forms, with the text before the underscore that precedes the number as  *)
(* the type name and the unmodified base as the part name, and is rejected *)
(* when, after stripping _crosswalk and then konec, it has no underscore,  *)
(* starts with its only underscore or ends with an underscore.             *)
(***************************************************************************)
C12_PartGrammarAmended ==
    Applied("ParseBase") =>
        \E name \in {call[1].arg} : \E r \in {call[1].ret} :
            IF IsCrossroadName(name)
            THEN /\ r.ok
                 /\ r.Kind = "Crossroad"
                 /\ r.Name = name
                 /\ r.TypeName = CrossroadTypeName
            ELSE PartRules(name, r)

\* a terminator whose type name holds an underscore
C12_TerminatorWitness ==
    /\ Applied("ParseBase")
    /\ call[1].ret.ok
    /\ call[1].ret.Kind = "Terminator"
    /\ ~Component(call[1].ret.TypeName)

\* a name rejected for the empty number in front of konec
C12_EmptyNumberWitness ==
    /\ Applied("ParseBase")
    /\ ~call[1].ret.ok
    /\ HasSuffix(call[1].arg, <<95>> \o Konec)
    /\ Len(call[1].arg) > 6

(***************************************************************************)
(* Vocabulary of the count and length property.                            *)
(***************************************************************************)
\* the offset just past n entries (06 00 0D <len> <body>) laid end to end
\* from pos, -1 when one of them is no entry header or leaves the buffer
RECURSIVE WalkEnd(_, _, _)
WalkEnd(bytes, pos, n) ==
    IF n = 0 THEN pos
    ELSE IF pos + 7 > Len(bytes) \/ ~MatchAt(bytes, pos, <<6, 0, 13>>) THEN -1
    ELSE WalkEnd(bytes, pos + 7 + readU32At(bytes, pos + 3, Len(bytes)), n - 1)

\* the list field tag 00 0C <len> <count> at offset pos of bytes
DeclaredLen(bytes, pos) == readU32At(bytes, pos + 3, Len(bytes))

DeclaredCount(bytes, pos) == readU32At(bytes, pos + 7, Len(bytes))

(***************************************************************************)
(* C13 Count and length after a roads patch.  After a successful           *)
(* PatchRoadTool call whose scope includes roads, with n road types in the *)
(* configuration, the output holds at the offset of the old road-type list *)
(* a list field 88 00 0C whose count field reads n and whose n entries     *)
(* fill exactly its declared length.  When the road-type list is the only  *)
(* replacement, the output length is the input length plus the size of the *)
(* new field (7 + its declared length) minus the size of the replaced      *)
(* field (7 + the old declared length).                                    *)
(***************************************************************************)
C13_CountAndLength ==
    (Succeeded /\ IncludesRoads(given[1].scope)) =>
        \E rr \in {RoadRange(given[1].data)} : \E out \in {res[1].out} :
            /\ rr.ok
            /\ MatchAt(out, rr.start, <<136, 0, 12>>)
            /\ DeclaredCount(out, rr.start) = Len(given[1].cfg.Types)
            /\ WalkEnd(out, rr.start + 11, Len(given[1].cfg.Types))
                  = rr.start + 7 + DeclaredLen(out, rr.start)
            /\ Len(res[1].repls) = 1 =>
                  Len(out) = Len(given[1].data) + (7 + DeclaredLen(out, rr.start))
                             - (7 + DeclaredLen(given[1].data, rr.start))

\* a roads-only patch that changes the number of road types and the size
C13_RoadsResizedWitness ==
    /\ Succeeded
    /\ given[1].scope = "roads"
    /\ Len(res[1].repls) = 1
    /\ Len(given[1].cfg.Types) = 2
    /\ DeclaredCount(given[1].data, RoadRange(given[1].data).start) = 1
    /\ D88 > 0

(***************************************************************************)
(* Vocabulary of the ambiguous-file property.                              *)
(***************************************************************************)
Count(file, sig) == Cardinality(Occurrences(file, sig))

(***************************************************************************)
(* C14 Ambiguous-file rejection.  PatchRoadTool never returns bytes when   *)
(* an offset it has to move has no unique signature: after a successful    *)
(* call that changed list sizes, 18 00 0D occurs exactly once in the       *)
(* returned buffer if d88+d89+d8A is not 0, and 3E 00 0D occurs exactly    *)
(* once in it if d88+d89 is not 0.                                         *)
(***************************************************************************)
C14_AmbiguousRejected ==
    Succeeded =>
        /\ D88 + D89 + D8A # 0 => Count(res[1].out, Sig18) = 1
        /\ D88 + D89 # 0 => Count(res[1].out, Sig3E) = 1

\* a call rejected for the second 3E 00 0D in the file
C14_RejectedWitness ==
    /\ Called
    /\ ~res[1].ok
    /\ res[1].err = "offset tag count mismatch"
    /\ res[1].out = <<>>
    /\ Count(given[1].data, Sig18) = 1
    /\ Count(given[1].data, Sig3E) = 2

\* the same statement for the calls whose size changes do not cancel
C14_RejectedWhenNotCancelling ==
    (Succeeded /\ D88 + D89 + D8A # 0) =>
        /\ Count(res[1].out, Sig18) = 1
        /\ D88 + D89 # 0 => Count(res[1].out, Sig3E) = 1

(***************************************************************************)
(* Vocabulary of the straight-part property: the road-type list of the     *)
(* output, decoded from the offset of the list it replaced.                *)
(***************************************************************************)
DecodedRoadList ==
    parseEntries(res[1].out, RoadRange(given[1].data).start + 11,
                 DeclaredLen(res[1].out, RoadRange(given[1].data).start) - 4,
                 DeclaredCount(res[1].out, RoadRange(given[1].data).start),
                 Len(res[1].out))

\* the entries of the list field of an entry with the given tag
SubEntries(e, tag) ==
    Concat([k \in 1..Len(e.Fields) |->
               IF e.Fields[k].Tag = tag /\ e.Fields[k].Type = 12
               THEN e.Fields[k].List ELSE <<>>])

\* how many fields of an entry carry the tag
TagCount(e, tag) == Cardinality({k \in 1..Len(e.Fields) : e.Fields[k].Tag = tag})

ByteFieldCount(e, tag) ==
    Cardinality({k \in 1..Len(e.Fields) : e.Fields[k].Tag = tag /\ e.Fields[k].Type = 9})

(***************************************************************************)
(* C15 Straight-part asymmetry.  After a successful PatchRoadTool call     *)
(* whose scope includes roads, the road-type list of the output decodes to *)
(* one entry per road type of the configuration; its straight-parts list   *)
(* (0x78), corner-parts list (0x79) and terminator-parts list (0x7B) hold  *)
(* one entry per part of the configuration; every straight-part entry has  *)
(* exactly one field with tag 0x7D, a byte field, and no corner-part or    *)
(* terminator-part entry has a field with tag 0x7D, whatever type tag the  *)
(* part carries.                                                           *)
(***************************************************************************)
C15_StraightFlagOnly ==
    (Succeeded /\ IncludesRoads(given[1].scope)) =>
        \E dec \in {DecodedRoadList} : \E types \in {given[1].cfg.Types} :
            /\ dec.ok
            /\ Len(dec.entries) = Len(types)
            /\ \A i \in 1..Len(types) :
                  \E s \in {SubEntries(dec.entries[i], 120)} :
                  \E c \in {SubEntries(dec.entries[i], 121)} :
                  \E m \in {SubEntries(dec.entries[i], 123)} :
                      /\ Len(s) = Len(types[i].StraightParts)
                      /\ Len(c) = Len(types[i].CornerParts)
                      /\ Len(m) = Len(types[i].TerminatorPart)
                      /\ \A k \in 1..Len(s) :
                            TagCount(s[k], 125) = 1 /\ ByteFieldCount(s[k], 125) = 1
                      /\ \A k \in 1..Len(c) : TagCount(c[k], 125) = 0
                      /\ \A k \in 1..Len(m) : TagCount(m[k], 125) = 0

\* a patch with a straight part tagged as a corner and a corner and a
\* terminator tagged as straight parts
C15_MixedTagsWitness ==
    /\ Succeeded
    /\ IncludesRoads(given[1].scope)
    /\ \E i \in 1..Len(given[1].cfg.Types) :
          \E rt \in {given[1].cfg.Types[i]} :
              /\ \E k \in 1..Len(rt.StraightParts) : rt.StraightParts[k].Type = 20
              /\ \E k \in 1..Len(rt.CornerParts) : rt.CornerParts[k].Type = 19
              /\ \E k \in 1..Len(rt.TerminatorPart) : rt.TerminatorPart[k].Type = 19

(***************************************************************************)
(* Vocabulary of the fresh-identifier property.  An item is an identifier  *)
(* written by the call together with whether it was allocated (the entry   *)
(* had identifier 0 in the configuration when it was encoded) or taken     *)
(* from the configuration or the file.                                     *)
(***************************************************************************)
Replaced(kind) == \E i \in 1..Len(res[1].repls) : res[1].repls[i].kind = kind

Item(id, fresh) == [id |-> id, fresh |-> fresh]

\* the road types of the configuration after the identifiers of the file
\* were inherited, before the missing ones are assigned (write.go 59-62)
AfterInherit ==
    IF Len(given[1].cfg.Types) = Len(ParseRoadTypes(given[1].data).Types)
    THEN inheritExistingRoadTypeIDs(given[1].cfg.Types, ParseRoadTypes(given[1].data).Types)
    ELSE given[1].cfg.Types

PartItems(entries, parts) ==
    [k \in 1..Len(entries) |-> Item(entries[k].ID, parts[k].ID = 0)]

RoadTypeItems(e, rt, before) ==
    <<Item(e.ID, before.ID = 0)>>
    \o PartItems(SubEntries(e, 120), rt.StraightParts)
    \o PartItems(SubEntries(e, 121), rt.CornerParts)
    \o PartItems(SubEntries(e, 123), rt.TerminatorPart)

RoadItems ==
    IF ~Replaced("roads") THEN <<>>
    ELSE Concat([i \in 1..Len(res[1].cfgTypes) |->
                    RoadTypeItems(DecodedRoadList.entries[i], res[1].cfgTypes[i],
                                  AfterInherit[i])])

\* a crossroad whose definition entry gets an allocated identifier
FreshDef(cr) == cr.TV4PDef = <<>> \/ cr.TV4PDef[1].ID = 0

DefItems ==
    IF ~Replaced("defs") THEN <<>>
    ELSE [k \in 1..Len(OutDefIDs) |-> Item(OutDefIDs[k], FreshDef(res[1].cfgCrossroads[k]))]

LinkItems ==
    IF ~Replaced("links") THEN <<>>
    ELSE [k \in 1..Len(OutLinkIDs) |-> Item(OutLinkIDs[k], FALSE)]

WrittenItems == RoadItems \o DefItems \o LinkItems

(***************************************************************************)
(* C16 Fresh identifiers avoid the file and the current run.  After a      *)
(* successful PatchRoadTool call, every identifier the call allocated for  *)
(* a road type, a road part or a crossroad definition whose identifier was *)
(* 0 is non-zero, is none of the identifiers collectEntryIDs finds in the  *)
(* host file, and is the identifier of no other entry the call wrote,      *)
(* allocated or explicit, in the road-type list, the definition list or    *)
(* the link list.                                                          *)
(***************************************************************************)
C16_FreshIdentifiers ==
    Succeeded =>
        \E items \in {WrittenItems} :
            \A k \in 1..Len(items) :
                items[k].fresh =>
                    /\ items[k].id # 0
                    /\ items[k].id \notin collectEntryIDs(given[1].data)
                    /\ \A j \in 1..Len(items) : j # k => items[j].id # items[k].id

\* a call under scope all that allocated a part identifier in the road
\* stage and a definition identifier in the crossroad stage
C16_BothStagesWitness ==
    /\ Succeeded
    /\ given[1].scope = "all"
    /\ \E k \in 1..Len(RoadItems) : RoadItems[k].fresh
    /\ \E k \in 1..Len(DefItems) : DefItems[k].fresh

\* the same statement for the calls that write one stage only
C16_FreshWithinOneStage ==
    (Succeeded /\ ~(Replaced("roads") /\ Replaced("defs"))) =>
        \E items \in {WrittenItems} :
            \A k \in 1..Len(items) :
                items[k].fresh =>
                    /\ items[k].id # 0
                    /\ items[k].id \notin collectEntryIDs(given[1].data)
                    /\ \A j \in 1..Len(items) : j # k => items[j].id # items[k].id

(***************************************************************************)
(* Vocabulary of the default-only property.                                *)
(***************************************************************************)
\* the last patch ran selectDefaultCrossroads on a crossroad list that
\* passes ValidateCrossroads against the road types of the call
SelectedFromValid ==
    /\ given # <<>>
    /\ IncludesCrossroads(given[1].scope)
    /\ ~given[1].allCrossroads
    /\ ~given[1].loaded.CrossroadsNil
    /\ ValidateCrossroads(given[1].loaded.CrossroadTypes, given[1].cfg.Types) = ""

NamedRoadTypes(types) == {i \in 1..Len(types) : TrimSpace(types[i].Name) # <<>>}

SameDefault(a, b) ==
    /\ TrimSpace(a.Default) # <<>>
    /\ ToLower(TrimSpace(a.Default)) = ToLower(TrimSpace(b.Default))

(***************************************************************************)
(* C18 Default-only patching.  When patch runs without --all-crossroads on *)
(* a crossroad list that passes ValidateCrossroads, the list               *)
(* selectDefaultCrossroads returns holds at most as many crossroads as     *)
(* there are road types with a non-empty name, no two of them carry the    *)
(* same default (compared case-insensitively), and it passes               *)
(* ValidateCrossroads.                                                     *)
(***************************************************************************)
C18_DefaultOnly ==
    SelectedFromValid =>
        \E out \in {given[1].cfg.CrossroadTypes} :
            /\ Len(out) <= Cardinality(NamedRoadTypes(given[1].cfg.Types))
            /\ \A i, j \in 1..Len(out) : i # j => ~SameDefault(out[i], out[j])
            /\ ValidateCrossroads(out, given[1].cfg.Types) = ""

\* a selection that dropped crossroads and passes the validation
C18_SelectedWitness ==
    /\ SelectedFromValid
    /\ Len(given[1].cfg.CrossroadTypes) < Len(given[1].loaded.CrossroadTypes)
    /\ Len(given[1].cfg.CrossroadTypes) > 0
    /\ ValidateCrossroads(given[1].cfg.CrossroadTypes, given[1].cfg.Types) = ""

\* what the selection does guarantee: every returned crossroad carries a
\* default that names a road type present in its connections
C18_DefaultsPresent ==
    (SelectedFromValid
        /\ given[1].cfg.CrossroadTypes # given[1].loaded.CrossroadTypes) =>
        \A i \in 1..Len(given[1].cfg.CrossroadTypes) :
            /\ TrimSpace(given[1].cfg.CrossroadTypes[i].Default) # <<>>
            /\ crossroadHasRoadType(given[1].cfg.CrossroadTypes[i],
                                    given[1].cfg.CrossroadTypes[i].Default)

(***************************************************************************)
(* Vocabulary of the codec properties.                                     *)
(***************************************************************************)
\* the number of bytes the encoding of a decoded entry body takes when
\* nothing but its fields and nested entries is in it
RECURSIVE BodySize(_)
RECURSIVE EntriesSize(_)
RECURSIVE FieldsSize(_)
BodySize(e) == 6 + FieldsSize(e.Fields)

EntriesSize(es) ==
    IF es = <<>> THEN 0 ELSE 7 + BodySize(Head(es)) + EntriesSize(Tail(es))

FieldsSize(fs) ==
    IF fs = <<>> THEN 0
    ELSE FieldsSize(Tail(fs))
         + (IF Head(fs).Type = 12 THEN 11 + EntriesSize(Head(fs).List)
            ELSE IF Head(fs).Type = 11 THEN 5 + Len(Head(fs).Raw)
            ELSE 3 + Len(Head(fs).Raw))

\* the field pieces that are well formed and carry no identifier 0
SoundPieces ==
    {PathField, <<113, 0, 9, 1>>, <<100, 0, 11, 0, 0>>,
     NestedList(0, <<>>), NestedList(1, BareEntry(9))}

\* an entry body of non-zero type and identifier made of such pieces only
SoundBody(body) ==
    \E n \in 0..MaxFields : \E fs \in [1..n -> SoundPieces] :
        \E typ \in CodecTypeIDs \ {0}, id \in CodecIDs \ {0} :
            body = U16Bytes(typ) \o U32Bytes(id) \o Concat(fs)

(***************************************************************************)
(* C17 Verbatim replay.  For every entry body the decoder accepts,         *)
(* rawEntryToBytes applied to entryToRaw of the decoded entry succeeds     *)
(* and returns exactly the bytes the entry was decoded from: the header    *)
(* 06 00 0D, the body length and the body.                                 *)
(***************************************************************************)
C17_VerbatimReplay ==
    (Applied("rawEntryToBytes") /\ call[1].ret.decoded) =>
        /\ call[1].ret.ok
        /\ call[1].ret.bytes = Framed(call[1].arg)

\* an entry with a nested list that is replayed byte for byte
C17_NestedReplayedWitness ==
    /\ Applied("rawEntryToBytes")
    /\ call[1].ret.decoded
    /\ call[1].ret.ok
    /\ call[1].ret.bytes = Framed(call[1].arg)
    /\ \E i \in 1..Len(parseEntry(call[1].arg, 0, Len(call[1].arg)).entry.Fields) :
           Len(parseEntry(call[1].arg, 0, Len(call[1].arg)).entry.Fields[i].List) = 1

\* the replay of the well-formed bodies without identifier 0
C17_SoundReplayed ==
    (Applied("rawEntryToBytes") /\ SoundBody(call[1].arg)) =>
        /\ call[1].ret.decoded
        /\ call[1].ret.ok
        /\ call[1].ret.bytes = Framed(call[1].arg)

(***************************************************************************)
(* C19 Scanner count check.  Whenever findTaggedListAfter reports a tagged *)
(* list as found, the number of entries it decoded equals the entry count  *)
(* declared in the header of that list.                                    *)
(***************************************************************************)
C19_CountMatches ==
    (Applied("findTaggedListAfter") /\ call[1].ret.Found) =>
        Len(call[1].ret.Entries) = call[1].ret.Count

\* a list of two entries declaring two entries is found
C19_FoundTwoWitness ==
    /\ Applied("findTaggedListAfter")
    /\ call[1].ret.Found
    /\ call[1].ret.Count = 2
    /\ Len(call[1].ret.Entries) = 2

\* what the scanner does guarantee: never more entries than declared
C19_AtMostDeclared ==
    (Applied("findTaggedListAfter") /\ call[1].ret.Found) =>
        Len(call[1].ret.Entries) <= call[1].ret.Count

(***************************************************************************)
(* C20 Exact consumption.  The decoder accepts an entry body only if its   *)
(* fields, with the nested lists inside them, take exactly the length of   *)
(* the body, and accepts an entry list only if its entries take exactly    *)
(* the length of the payload: no byte is left over after the last field or *)
(* entry, and none lies beyond the window.                                 *)
(***************************************************************************)
C20_ExactConsumption ==
    /\ (Applied("parseEntry") /\ call[1].ret.ok) =>
           BodySize(call[1].ret.entry) = Len(call[1].arg)
    /\ (Applied("parseEntries") /\ call[1].ret.ok) =>
           EntriesSize(call[1].ret.entries) = Len(call[1].arg.data)

\* a body with three bytes after its last field is rejected
C20_LeftoverRejectedWitness ==
    /\ Applied("parseEntry")
    /\ ~call[1].ret.ok
    /\ call[1].arg = U16Bytes(26) \o U32Bytes(5) \o PathField \o <<1, 0, 7>>

\* what the decoder does guarantee: nothing is read beyond the window
C20_NoOverrun ==
    /\ (Applied("parseEntry") /\ call[1].ret.ok) =>
           BodySize(call[1].ret.entry) <= Len(call[1].arg)
    /\ (Applied("parseEntries") /\ call[1].ret.ok) =>
           EntriesSize(call[1].ret.entries) <= Len(call[1].arg.data)

(***************************************************************************)
(* Vocabulary of the look-alike property.                                  *)
(***************************************************************************)
\* the entries of the field 88 00 0C at offset i of file, decoded over its
\* declared length with its declared count
CandidateEntries(file, i) ==
    parseEntries(file, i + 11, DeclaredLen(file, i) - 4, DeclaredCount(file, i), Len(file))

IsRoadTypeEntry(e) == entryHasRoadPath(e) \/ entryHasRoadLists(e)

\* offset i holds a road-type list candidate whose declared entries all
\* decode, whose decoded count is the declared one (a count of 2^31 or more
\* is matched by no list) and which holds a road-type entry
Conforming(file, i) ==
    /\ i + 11 <= Len(file)
    /\ MatchAt(file, i, <<136, 0, 12>>)
    /\ DeclaredLen(file, i) >= 4
    /\ At(file, i + 10) < 128
    /\ CandidateEntries(file, i).ok
    /\ Len(CandidateEntries(file, i).entries) = DeclaredCount(file, i)
    /\ \E k \in 1..Len(CandidateEntries(file, i).entries) :
           IsRoadTypeEntry(CandidateEntries(file, i).entries[k])

ConformingOffsets(file) == {i \in 0..Len(file) : Conforming(file, i)}

\* offset i holds 88 00 0C without being a conforming candidate
LookAlike(file, i) == MatchAt(file, i, <<136, 0, 12>>) /\ ~Conforming(file, i)

(***************************************************************************)
(* C21 Scan past look-alikes.  Whenever the buffer holds a conforming      *)
(* road-type list candidate, ParseRoadTypes succeeds and the list it       *)
(* returns is a conforming one, whatever 88 00 0C candidates that do not   *)
(* conform stand before it.                                                *)
(***************************************************************************)
C21_ScanPastLookAlikes ==
    (Applied("ParseRoadTypes") /\ ConformingOffsets(call[1].arg) # {}) =>
        /\ call[1].ret.ok
        /\ call[1].ret.Start \in ConformingOffsets(call[1].arg)

\* a look-alike at offset 0 was skipped and the list behind it returned
C21_SkippedWitness ==
    /\ Applied("ParseRoadTypes")
    /\ LookAlike(call[1].arg, 0)
    /\ call[1].ret.ok
    /\ call[1].ret.Start > 0
    /\ Conforming(call[1].arg, call[1].ret.Start)

\* the same statement for the buffers in which no look-alike before the
\* first conforming list decodes to a list with a road-type entry
C21_UndecodableSkipped ==
    (/\ Applied("ParseRoadTypes")
     /\ ConformingOffsets(call[1].arg) # {}
     /\ \A i \in 0..(SetMin(ConformingOffsets(call[1].arg)) - 1) :
            LookAlike(call[1].arg, i) =>
                \/ i + 11 > Len(call[1].arg)
                \/ At(call[1].arg, i + 10) >= 128
                \/ DeclaredLen(call[1].arg, i) < 4
                \/ ~CandidateEntries(call[1].arg, i).ok
                \/ \A k \in 1..Len(CandidateEntries(call[1].arg, i).entries) :
                       ~IsRoadTypeEntry(CandidateEntries(call[1].arg, i).entries[k]))
    => /\ call[1].ret.ok
       /\ call[1].ret.Start = SetMin(ConformingOffsets(call[1].arg))

(***************************************************************************)
(* Vocabulary of the connection-index property.                            *)
(***************************************************************************)
\* the names of the road types of DefFile, by index
FileTypeNames == <<(<<97>>), (<<98>>)>>

Unset(i) == i = -2 \/ i = -1

\* the name a stored index stands for
SlotName(i) == IF Unset(i) \/ i >= Len(FileTypeNames) THEN <<>> ELSE FileTypeNames[i + 1]

\* the connections the name grammar gives: kr_t_<ab>_<c>, else none
GrammarConnections(name) ==
    IF name = KrT \o <<97, 95, 98>>
    THEN [A |-> <<97>>, B |-> <<97>>, C |-> <<98>>, D |-> <<>>]
    ELSE [A |-> <<>>, B |-> <<>>, C |-> <<>>, D |-> <<>>]

ExpectedConnections(name, idx) ==
    IF \A k \in 1..4 : Unset(idx[k]) THEN GrammarConnections(name)
    ELSE [A |-> SlotName(idx[1]), B |-> SlotName(idx[2]),
          C |-> SlotName(idx[3]), D |-> SlotName(idx[4])]

(***************************************************************************)
(* C22 Connection-index resolution.  ParseRoadToolConfig on a file with    *)
(* one crossroad definition returns that crossroad, and each of its slots  *)
(* A, B, C, D is the name of the road type at the stored index, or empty   *)
(* when the index is ff ff ff ff, not below the number of road types or    *)
(* missing; the connections come from the name grammar exactly when all    *)
(* four indices are unset.                                                 *)
(***************************************************************************)
C22_IndexResolution ==
    Applied("ParseRoadToolConfig") =>
        /\ call[1].ret.ok
        /\ Len(call[1].ret.cfg.CrossroadTypes) = 1
        /\ call[1].ret.cfg.CrossroadTypes[1].Connections
              = ExpectedConnections(call[1].arg.name, call[1].arg.idx)

\* a definition without index fields gets its connections from its name
C22_GrammarWitness ==
    /\ Applied("ParseRoadToolConfig")
    /\ \A k \in 1..4 : call[1].arg.idx[k] = -2
    /\ call[1].ret.ok
    /\ Len(call[1].ret.cfg.CrossroadTypes) = 1
    /\ call[1].ret.cfg.CrossroadTypes[1].Connections
          = [A |-> <<97>>, B |-> <<97>>, C |-> <<98>>, D |-> <<>>]

\* the same statement for the definitions without any index field
C22_WithoutIndexFields ==
    (Applied("ParseRoadToolConfig") /\ \A k \in 1..4 : call[1].arg.idx[k] = -2) =>
        /\ call[1].ret.ok
        /\ Len(call[1].ret.cfg.CrossroadTypes) = 1
        /\ call[1].ret.cfg.CrossroadTypes[1].Connections
              = ExpectedConnections(call[1].arg.name, call[1].arg.idx)

\* a definition with an index field is not decoded at all
C22_IndexFieldUndecoded ==
    (Applied("ParseRoadToolConfig") /\ \E k \in 1..4 : call[1].arg.idx[k] # -2) =>
        /\ call[1].ret.ok
        /\ call[1].ret.cfg.CrossroadTypes = <<>>

(***************************************************************************)
(* Vocabulary of the reordering properties.                                *)
(***************************************************************************)
\* how often x stands in the sequence s
Times(s, x) == Cardinality({i \in 1..Len(s) : s[i] = x})

\* the crossroad list handed to the last call passes ValidateCrossroads
ArgValid == ValidateCrossroads(call[1].arg.CrossroadTypes, call[1].arg.Types) = ""

\* crossroad cr carries an explicit default that names road type rt
DefaultNames(cr, rt) ==
    /\ TrimSpace(cr.Default) # <<>>
    /\ TrimSpace(rt.Name) # <<>>
    /\ ToLower(TrimSpace(cr.Default)) = ToLower(TrimSpace(rt.Name))

(***************************************************************************)
(* C23 Reordering is a permutation.  The list                              *)
(* reorderCrossroadsByRoadTypeIndex leaves has the length of the list it   *)
(* was given and holds every crossroad entry as often as that list did:    *)
(* no entry is duplicated, dropped or modified.                            *)
(***************************************************************************)
C23_ReorderPermutes ==
    Applied("reorderCrossroadsByRoadTypeIndex") =>
        /\ Len(call[1].ret) = Len(call[1].arg.CrossroadTypes)
        /\ \A cr \in CrossroadPool :
               Times(call[1].ret, cr) = Times(call[1].arg.CrossroadTypes, cr)
        /\ \A i \in 1..Len(call[1].ret) : call[1].ret[i] \in CrossroadPool

\* a reordering that moved entries of a list of three different crossroads
C23_MovedWitness ==
    /\ Applied("reorderCrossroadsByRoadTypeIndex")
    /\ Len(call[1].ret) = 3
    /\ call[1].ret # call[1].arg.CrossroadTypes
    /\ \A i, j \in 1..3 : i # j => call[1].ret[i] # call[1].ret[j]

(***************************************************************************)
(* C24 Reordering aligns defaults.  After                                  *)
(* reorderCrossroadsByRoadTypeIndex on a configuration that passes         *)
(* ValidateCrossroads, for every position i below both the number of road  *)
(* types and the number of crossroads: if a crossroad of the list carries  *)
(* an explicit default naming road type i, the crossroad at position i is  *)
(* that crossroad.                                                         *)
(***************************************************************************)
C24_DefaultsAligned ==
    (Applied("reorderCrossroadsByRoadTypeIndex") /\ ArgValid) =>
        \A i \in 1..Min2(Len(call[1].arg.Types), Len(call[1].arg.CrossroadTypes)) :
            \A j \in 1..Len(call[1].arg.CrossroadTypes) :
                DefaultNames(call[1].arg.CrossroadTypes[j], call[1].arg.Types[i]) =>
                    call[1].ret[i] = call[1].arg.CrossroadTypes[j]

\* the same statement when every road type in reach of the list has a
\* crossroad with an explicit default naming it
C24_AlignedWhenAllExplicit ==
    (/\ Applied("reorderCrossroadsByRoadTypeIndex")
     /\ ArgValid
     /\ \A i \in 1..Min2(Len(call[1].arg.Types), Len(call[1].arg.CrossroadTypes)) :
            \/ call[1].arg.Types[i].Name = <<>>
            \/ \E j \in 1..Len(call[1].arg.CrossroadTypes) :
                   DefaultNames(call[1].arg.CrossroadTypes[j], call[1].arg.Types[i]))
    => \A i \in 1..Min2(Len(call[1].arg.Types), Len(call[1].arg.CrossroadTypes)) :
           \A j \in 1..Len(call[1].arg.CrossroadTypes) :
               DefaultNames(call[1].arg.CrossroadTypes[j], call[1].arg.Types[i]) =>
                   call[1].ret[i] = call[1].arg.CrossroadTypes[j]

\* two defaults standing crosswise are both brought to their positions
C24_BothAlignedWitness ==
    /\ Applied("reorderCrossroadsByRoadTypeIndex")
    /\ ArgValid
    /\ Len(call[1].arg.Types) = 2
    /\ Len(call[1].arg.CrossroadTypes) = 2
    /\ DefaultNames(call[1].arg.CrossroadTypes[1], call[1].arg.Types[2])
    /\ DefaultNames(call[1].arg.CrossroadTypes[2], call[1].arg.Types[1])
    /\ DefaultNames(call[1].ret[1], call[1].arg.Types[1])
    /\ DefaultNames(call[1].ret[2], call[1].arg.Types[2])

(***************************************************************************)
(* Vocabulary of the road-type identifier progression.                     *)
(***************************************************************************)
\* the first non-zero element of a sequence of identifiers, 0 when none
FirstNonZero(ids) ==
    IF \A i \in 1..Len(ids) : ids[i] = 0 THEN 0
    ELSE ids[SetMin({i \in 1..Len(ids) : ids[i] # 0})]

\* the identifiers of the road types after the call
AssignedIDs == [i \in 1..Len(call[1].ret.types) |-> call[1].ret.types[i].ID]

\* the statement of the progression for a given remainder
Progression(rem) ==
    \A i \in 1..Len(call[1].arg.ids) :
        IF call[1].arg.ids[i] # 0 THEN AssignedIDs[i] = call[1].arg.ids[i]
        ELSE /\ AssignedIDs[i] # 0
             /\ AssignedIDs[i] \notin call[1].arg.used
             /\ AssignedIDs[i] % RoadTypeStride = rem
             /\ \A k \in 1..Len(call[1].arg.existing) :
                    AssignedIDs[i] > call[1].arg.existing[k]
             /\ \A k \in 1..Len(call[1].arg.ids) : AssignedIDs[i] > call[1].arg.ids[k]
             /\ \A k \in 1..(i - 1) :
                    call[1].arg.ids[k] = 0 => AssignedIDs[k] < AssignedIDs[i]

Generated == {i \in 1..Len(call[1].arg.raw) : ~call[1].arg.raw[i]}

\* b is one of the 4096 candidate bases and no identifier of its sequence is
\* 0 or used
FreeBase(b) ==
    /\ b >= Align4(call[1].arg.alloc.next)
    /\ b < Align4(call[1].arg.alloc.next) + MaxBaseAttempts
    /\ \A i \in Generated :
           /\ b + (i - 1) * CrossroadStride # 0
           /\ b + (i - 1) * CrossroadStride \notin call[1].arg.alloc.used

\* the base the identifier at position i belongs to
BaseOf(i) == call[1].ret.ids[i] - (i - 1) * CrossroadStride

Tier(cr, want) ==
    IF TrimSpace(cr.Default) # <<>> /\ ToLower(TrimSpace(cr.Default)) = want THEN 4
    ELSE IF {ToLower(cr.Connections.A), ToLower(cr.Connections.B)} = {want} THEN 3
    ELSE IF want \in {ToLower(cr.Connections.A), ToLower(cr.Connections.B)} THEN 2
    ELSE IF want \in {ToLower(cr.Connections.C), ToLower(cr.Connections.D)} THEN 1
    ELSE 0

\* kr_t_ before kr_x_ before other names
ShapeRank(cr) ==
    IF HasPrefix(cr.Name, KrT) THEN 2 ELSE IF HasPrefix(cr.Name, KrX) THEN 1 ELSE 0

\* i is better for want than j: higher tier, then shape, then earlier position
Better(crs, want, i, j) ==
    \/ Tier(crs[i], want) > Tier(crs[j], want)
    \/ /\ Tier(crs[i], want) = Tier(crs[j], want)
       /\ \/ ShapeRank(crs[i]) > ShapeRank(crs[j])
          \/ ShapeRank(crs[i]) = ShapeRank(crs[j]) /\ i < j

\* the position the tiers choose among cands, 0 when nothing matches
TierChoice(crs, cands, want) ==
    LET matching == {i \in cands : Tier(crs[i], want) > 0} IN
    IF matching = {} THEN 0
    ELSE CHOOSE i \in matching : \A j \in matching \ {i} : Better(crs, want, i, j)

\* the selection with the tiers' choice for every named road type
RECURSIVE TierSelection(_, _, _)
TierSelection(all, roadTypes, i) ==
    IF i > Len(roadTypes) THEN <<>>
    ELSE LET want == TrimSpace(roadTypes[i].Name)
             rest == TierSelection(all, roadTypes, i + 1)
             with(idx) == IF idx = 0 THEN rest ELSE <<markDefault(all[idx], want)>> \o rest
         IN IF want = <<>> THEN rest
            ELSE with(TierChoice(all, 1..Len(all), ToLower(want)))

\* the reordering with the tiers' choice among the positions not locked
RECURSIVE TierReorder(_, _, _, _)
TierReorder(types, crs, locked, rtIdx) ==
    IF rtIdx > Min2(Len(types), Len(crs)) THEN crs
    ELSE LET want == ToLower(types[rtIdx].Name)
             with(j) ==
                 IF want = <<>> \/ j = 0 \/ j = rtIdx
                 THEN TierReorder(types, crs, locked, rtIdx + 1)
                 ELSE TierReorder(types, Swap(crs, rtIdx, j), locked \cup {rtIdx}, rtIdx + 1)
         IN with(TierChoice(crs, (1..Len(crs)) \ (locked \ {rtIdx}), want))

\* reorderCrossroadsByRoadTypeIndex follows the tiers
ReorderByTiers ==
    Applied("reorderCrossroadsByRoadTypeIndex") =>
        call[1].ret = TierReorder(call[1].arg.Types, call[1].arg.CrossroadTypes, {}, 1)

\* selectDefaultCrossroads follows the tiers
SelectByTiers ==
    Applied("selectDefaultCrossroads") =>
        call[1].ret =
            IF TierSelection(call[1].arg.CrossroadTypes, call[1].arg.Types, 1) = <<>>
            THEN call[1].arg.CrossroadTypes
            ELSE TierSelection(call[1].arg.CrossroadTypes, call[1].arg.Types, 1)

\* no two crossroads of the list carry the same explicit default
DefaultsDistinct(crs) ==
    \A i, j \in 1..Len(crs) :
        (i # j /\ TrimSpace(crs[i].Default) # <<>>) =>
            ToLower(TrimSpace(crs[i].Default)) # ToLower(TrimSpace(crs[j].Default))

(***************************************************************************)
(* C27 Default-selection tiers.  For a road-type name the crossroad chosen *)
(* in selectDefaultCrossroads and in reorderCrossroadsByRoadTypeIndex      *)
(* (among the positions not locked) is the best one under the order        *)
(* explicit default > A and B > A or B > C or D, then kr_t_ > kr_x_ >      *)
(* other names, then the earliest position; a crossroad matching in no     *)
(* slot and without a matching default is never chosen.                    *)
(***************************************************************************)
C27_TiersChoose == ReorderByTiers /\ SelectByTiers

\* the tiers decide the selection when no explicit default is repeated
C27_TiersWithDistinctDefaults ==
    (Applied("selectDefaultCrossroads") /\ ~DefaultsDistinct(call[1].arg.CrossroadTypes))
        \/ C27_TiersChoose

\* a three-way and a four-way crossroad both marked as the default of a: the
\* selection takes the later, four-way one
C27_RepeatedDefaultWitness ==
    /\ Applied("selectDefaultCrossroads")
    /\ Len(call[1].arg.Types) = 1
    /\ Len(call[1].arg.CrossroadTypes) = 2
    /\ call[1].arg.CrossroadTypes[1].Name = KrTab
    /\ call[1].arg.CrossroadTypes[1].Default = Sa
    /\ call[1].arg.CrossroadTypes[2].Name = KrXab
    /\ call[1].arg.CrossroadTypes[2].Default = Sa
    /\ call[1].ret = <<call[1].arg.CrossroadTypes[2]>>

(***************************************************************************)
(* Vocabulary of decoding a patched file.                                  *)
(***************************************************************************)
Described(part) == part.Name # <<>> \/ part.Path # <<>>

\* names and paths of the parts that have a name or a path, in order
NamesAndPaths(parts) ==
    LET kept == SelectSeq(parts, Described)
    IN [k \in 1..Len(kept) |-> <<kept[k].Name, kept[k].Path>>]

\* the decoded road type shows what was written for the configured one
SameRoadType(decoded, configured) ==
    /\ decoded.Name = configured.Name
    /\ decoded.KeyCustom = configured.KeyCustom
    /\ decoded.NormalCustom = configured.NormalCustom
    /\ decoded.ID = configured.ID
    /\ NamesAndPaths(decoded.StraightParts) = NamesAndPaths(configured.StraightParts)
    /\ NamesAndPaths(decoded.CornerParts) = NamesAndPaths(configured.CornerParts)
    /\ NamesAndPaths(decoded.TerminatorPart) = NamesAndPaths(configured.TerminatorPart)

\* a successful PatchRoadTool call with the scope roads
PatchedRoads == res # <<>> /\ res[1].ok /\ given[1].scope = "roads"

(***************************************************************************)
(* C28 Patch then decode (road types).  After every successful             *)
(* PatchRoadTool(data, cfg, roads), ParseRoadTypes on the output succeeds  *)
(* and returns as many road types as cfg has, in the same order, each with *)
(* the same name and custom flags, the identifier that was written, and in *)
(* each of the three part collections the same part names and paths in the *)
(* same order (for parts with a non-empty name or path).                   *)
(***************************************************************************)
C28_PatchThenDecodeRoads ==
    PatchedRoads =>
        LET decodes(p) ==
                /\ p.ok
                /\ Len(p.Types) = Len(given[1].cfg.Types)
                /\ \A k \in 1..Len(p.Types) : SameRoadType(p.Types[k], res[1].cfgTypes[k])
        IN decodes(ParseRoadTypes(res[1].out))

\* two road types written over the file's, the first with two parts
C28_RewrittenWitness ==
    /\ PatchedRoads
    /\ Len(res[1].cfgTypes) = 2
    /\ Len(res[1].cfgTypes[1].StraightParts) = 2
    /\ res[1].cfgTypes[2].Name = Sc
    /\ ParseRoadTypes(res[1].out).ok
    /\ Len(ParseRoadTypes(res[1].out).Types[1].StraightParts) = 2

\* a blank part is written and left out by the decoder
C28_BlankPartWitness ==
    /\ PatchedRoads
    /\ Len(res[1].cfgTypes) = 1
    /\ Len(res[1].cfgTypes[1].StraightParts) = 2
    /\ ~Described(res[1].cfgTypes[1].StraightParts[1])
    /\ ParseRoadTypes(res[1].out).ok
    /\ Len(ParseRoadTypes(res[1].out).Types[1].StraightParts) = 1

(***************************************************************************)
(* Vocabulary of decoding patched crossroads.                              *)
(***************************************************************************)
\* the definition entry of the crossroad is built from the configuration
Synthesized(cr) == ~(cr.TV4PDef # <<>> /\ cr.TV4PDef[1].Type = 23)

\* a successful PatchRoadTool call that wrote a synthesized definition
PatchedSynthesized ==
    /\ res # <<>>
    /\ res[1].ok
    /\ touchesCrossroads(given[1].cfg, given[1].scope)
    /\ \E k \in 1..Len(res[1].cfgCrossroads) : Synthesized(res[1].cfgCrossroads[k])

\* the decoded crossroad shows the written one
SameCrossroad(decoded, configured) ==
    /\ decoded.Name = configured.Name
    /\ decoded.Model = configured.Model
    /\ decoded.Connections = configured.Connections

\* the decoded list shows every written crossroad, in order
SameCrossroads(decoded, configured) ==
    /\ Len(decoded) = Len(configured)
    /\ \A k \in 1..Len(decoded) : SameCrossroad(decoded[k], configured[k])

\* the configuration as the call left it
CfgAfter ==
    [given[1].cfg EXCEPT !.Types = res[1].cfgTypes, !.CrossroadTypes = res[1].cfgCrossroads]

(***************************************************************************)
(* C29 Patch then decode (crossroads).  After a successful PatchRoadTool   *)
(* call that writes at least one crossroad definition synthesized from the *)
(* config, ParseRoadToolConfig on the output returns those crossroad types *)
(* with the same names, models and connections in the same order, and a    *)
(* second PatchRoadTool call with a crossroad scope on the output locates  *)
(* the crossroad-definition list instead of failing with a not-found       *)
(* error.                                                                  *)
(***************************************************************************)
C29_PatchThenDecodeCrossroads ==
    PatchedSynthesized =>
        LET decodes(p) == p.ok /\ SameCrossroads(p.cfg.CrossroadTypes, res[1].cfgCrossroads)
            locates(r) == r.err # "crossroad lists not found near Road Tool block"
        IN /\ decodes(ParseRoadToolConfig(res[1].out))
           /\ locates(PatchRoadTool(res[1].out, CfgAfter, "crossroads"))

\* a generated configuration is patched in; the output decodes without
\* crossroads and a second crossroads patch does not find the lists
C29_LostDefinitionsWitness ==
    /\ PatchedSynthesized
    /\ origin = "generate"
    /\ ParseRoadToolConfig(res[1].out).ok
    /\ ParseRoadToolConfig(res[1].out).cfg.CrossroadTypes = <<>>
    /\ ~PatchRoadTool(res[1].out, CfgAfter, "crossroads").ok
    /\ PatchRoadTool(res[1].out, CfgAfter, "crossroads").err
           = "crossroad lists not found near Road Tool block"

(***************************************************************************)
(* Vocabulary of validation against encoding.                              *)
(***************************************************************************)
\* the connection names the encoder looks up for a crossroad
LookedUp(cr) == {Sides(cr)[k] : k \in 1..4} \ {<<>>}

\* buildCrossroadDefEntry ends with an unknown-road-type error
UnknownToEncoder(cr, types) ==
    Synthesized(cr) /\ \E n \in LookedUp(cr) : ~nameToIdx(types, n).ok

\* PatchRoadTool ran ValidateCrossroads and it accepted the list
ValidationAccepted ==
    /\ res # <<>>
    /\ res[1].validatedAt >= 0
    /\ ValidateCrossroads(given[1].cfg.CrossroadTypes, ValidatedTypes) = ""

(***************************************************************************)
(* C30 Validation agrees with encoding.  If ValidateCrossroads accepts a   *)
(* crossroad list against the config's road types, building the            *)
(* crossroad-definition entries for that config in PatchRoadTool never     *)
(* fails with an unknown-road-type error: validation and the name-to-index *)
(* mapping treat the same connection names as known.                       *)
(***************************************************************************)
C30_ValidatedNamesEncode ==
    ValidationAccepted =>
        ~(/\ res[1].err = "crossroad encoding failed"
          /\ \E k \in 1..Len(res[1].cfgCrossroads) :
                 UnknownToEncoder(res[1].cfgCrossroads[k], ValidatedTypes))

\* the connection A names the road type a as "A": validation accepts it and
\* the encoder does not know it
C30_UpperCaseWitness ==
    /\ ValidationAccepted
    /\ Len(res[1].cfgCrossroads) = 1
    /\ res[1].cfgCrossroads[1].Connections.A = <<65>>
    /\ \E k \in 1..Len(ValidatedTypes) : ValidatedTypes[k].Name = Sa
    /\ UnknownToEncoder(res[1].cfgCrossroads[1], ValidatedTypes)
    /\ ~res[1].ok
    /\ res[1].err = "crossroad encoding failed"

\* the unused side D holds a blank: validation skips it and the encoder
\* looks it up
C30_BlankSideWitness ==
    /\ ValidationAccepted
    /\ Len(res[1].cfgCrossroads) = 1
    /\ res[1].cfgCrossroads[1].Connections.D = <<32>>
    /\ ~res[1].ok
    /\ res[1].err = "crossroad encoding failed"

====
